---- MODULE Spec2Model ----
(***************************************************************************)
(* Model of the AI Tutor orchestrator: the intent classifier               *)
(* (context_analyzer.py), the parameter extractor                          *)
(* (parameter_extractor.py), the LangGraph dispatch pipeline               *)
(* (tool_orchestrator.py) and the schema validator (schema_validator.py).  *)
(*                                                                         *)
(* Text is modelled as a sequence of whitespace-separated tokens.  A token *)
(* is a record [w, n]: w is its text, n its value when the text is a run   *)
(* of digits and -1 otherwise.  JSON-like values carry their Python type   *)
(* in a tag: [t |-> "str" | "int" | "bool" | "obj" | "arr" | "none", v].   *)
(* An Optional[int] that is None is the integer 0 (pydantic keeps          *)
(* mastery_level within 1..10, and the code only tests its truthiness).    *)
(***************************************************************************)
EXTENDS Integers, Sequences, FiniteSets, TLC

VARIABLES
    pc,                     \* the graph node that runs next; idle before, returned after the run
    conversation_context,   \* OrchestratorState["conversation_context"]
    educational_intent,     \* OrchestratorState["educational_intent"]
    extracted_parameters,   \* OrchestratorState["extracted_parameters"]
    tool_request,           \* OrchestratorState["tool_request"]
    tool_response,          \* OrchestratorState["tool_response"]
    orchestrator_response,  \* OrchestratorState["orchestrator_response"]
    error_message,          \* OrchestratorState["error_message"]
    workflow_step,          \* OrchestratorState["workflow_step"]
    result,                 \* the value orchestrate() returned for this run
    passes,                 \* history: the four dictionaries merged by the extractor
    tool_calls,             \* history: calls made to the Tool Invocation Client in this run
    error_stage,            \* history: the first node that set workflow_step to "error"
    classification,         \* one call of ContextAnalyzer._detect_intent: its inputs and result
    validation,             \* one call of SchemaValidator.validate_tool_request, and the
                            \* call that validates its validated_data again
    sanitization,           \* one call of SchemaValidator.sanitize_input: its input and result
    outbound,               \* history: what each POST sent to a tool endpoint in this run met
    invocation,             \* one call of ToolOrchestrator._call_educational_tool
    runs,                   \* concurrent calls of orchestrate() on one orchestrator: each
                            \* call's position, context, the outcomes it met, its result
    run_states,             \* the OrchestratorState dictionary of each concurrent call
    components,             \* the tables the orchestrator's components hold on self
    endpoint_call,          \* one call of the POST /orchestrate handler
    active_sessions,        \* StateManager.active_sessions
    student_profiles,       \* StateManager.student_profiles: the users that have a profile
    clock,                  \* datetime.now(), in hours
    session_call            \* the last operation on the session store and what it returned

vars == <<pc, conversation_context, educational_intent, extracted_parameters,
          tool_request, tool_response, orchestrator_response, error_message,
          workflow_step, result, passes, tool_calls, error_stage,
          classification, validation, sanitization, outbound, invocation,
          runs, run_states, components, endpoint_call,
          active_sessions, student_profiles, clock, session_call>>

\* the calls made on a component directly, outside an orchestrator run
direct_calls == <<classification, validation, sanitization, invocation>>

\* the state of one orchestrator run
single_run == <<pc, conversation_context, educational_intent, extracted_parameters,
                tool_request, tool_response, orchestrator_response, error_message,
                workflow_step, result, passes, tool_calls, error_stage, outbound>>

\* several orchestrate() calls in flight on one orchestrator
concurrent == <<runs, run_states, components>>

\* the session store
session_store == <<active_sessions, student_profiles, clock, session_call>>

\* what lives beside a single run and the direct calls
other_state == <<concurrent, endpoint_call, session_store>>

-----------------------------------------------------------------------------
(* Bounds *)

\* longest message, in words, of the generated classifier messages
MaxWords == 2

\* longest string, in characters, handed to sanitize_input
MaxChars == 3

\* largest number a student's message states
MaxN == 25

-----------------------------------------------------------------------------
(* Values *)

None == [t |-> "none", v |-> "none"]
StrV(s) == [t |-> "str", v |-> s]
IntV(n) == [t |-> "int", v |-> n]
BoolV(b) == [t |-> "bool", v |-> b]
ObjV(o) == [t |-> "obj", v |-> o]
ArrV(a) == [t |-> "arr", v |-> a]

EmptyDict == [k \in {} |-> None]

\* dict.update: the keys of e are written over those of d
DictUpdate(d, e) ==
    [k \in (DOMAIN d) \cup (DOMAIN e) |-> IF k \in DOMAIN e THEN e[k] ELSE d[k]]

Min(a, b) == IF a < b THEN a ELSE b
Max(a, b) == IF a > b THEN a ELSE b

\* Python truthiness of an Optional[int]
Truthy(n) == n # 0

-----------------------------------------------------------------------------
(* Text *)

Word(s) == [w |-> s, n |-> -1]

Words(ss) == [i \in 1..Len(ss) |-> Word(ss[i])]

\* str.lower() on the tokens that carry upper-case letters
LowerTable == [Explain |-> "explain", Biology |-> "biology", Cards |-> "cards"]

Lower(s) == IF s \in DOMAIN LowerTable THEN LowerTable[s] ELSE s

LowerText(text) == [i \in 1..Len(text) |-> [w |-> Lower(text[i].w), n |-> text[i].n]]

\* <<p, s>>: p is a proper prefix / suffix / infix of the token text s
ProperPrefix == {<<"card", "cards">>, <<"question", "questions">>, <<"flash", "flashcards">>,
                 <<"me", "memorize">>}
ProperSuffix == {<<"cards", "flashcards">>, <<"is", "photosynthesis">>}
ProperInfix == {<<"card", "flashcards">>, <<"is", "spanish">>}

StartsWith(s, p) == s = p \/ <<p, s>> \in ProperPrefix
EndsWith(s, p) == s = p \/ <<p, s>> \in ProperSuffix
Contains(s, p) == StartsWith(s, p) \/ EndsWith(s, p) \/ <<p, s>> \in ProperInfix

\* a literal pattern of one or more words separated by one space occurs in text at token i
LiteralAt(pat, text, i) ==
    /\ i + Len(pat) - 1 <= Len(text)
    /\ IF Len(pat) = 1
       THEN Contains(text[i].w, pat[1])
       ELSE /\ EndsWith(text[i].w, pat[1])
            /\ \A j \in 2..(Len(pat) - 1) : text[i + j - 1].w = pat[j]
            /\ StartsWith(text[i + Len(pat) - 1].w, pat[Len(pat)])

\* re.search(pattern, text) for a literal pattern
ReSearch(pat, text) == \E i \in 1..Len(text) : LiteralAt(pat, text, i)

-----------------------------------------------------------------------------
(* Intent Classifier: context_analyzer.py *)

IntentNames == <<"note_making", "flashcard_generation", "concept_explanation", "quiz_generation">>

intent_patterns ==
    [note_making |->
        << <<"take", "notes">>, <<"make", "notes">>, <<"note", "taking">>, <<"summarize">>,
           <<"outline">>, <<"organize">>, <<"write", "down">>, <<"document">> >>,
     flashcard_generation |->
        << <<"flashcards">>, <<"flash", "cards">>, <<"memorize">>, <<"study", "cards">>,
           <<"practice">>, <<"quiz">>, <<"test">>, <<"review">> >>,
     concept_explanation |->
        << <<"explain">>, <<"understand">>, <<"what", "is">>, <<"how", "does">>,
           <<"tell", "me", "about">>, <<"describe">>, <<"clarify">>,
           <<"help", "me", "understand">> >>,
     quiz_generation |->
        << <<"quiz">>, <<"test">>, <<"questions">>, <<"practice", "problems">>,
           <<"exam">>, <<"assessment">>, <<"challenge">> >>]

\* the keyword of each parameter_patterns["topic"] regex, "<keyword> (.+?)(?:\s|$)"
TopicKeywords == <<"about", "topic", "subject", "regarding">>

\* the alternatives that follow (\d+)\s* in each parameter_patterns["count"] regex;
\* a trailing "s?" makes the alternative a prefix of what may follow
CountPatterns == << {"question", "card", "note", "item"}, {"of", "for"}, {"more", "additional"} >>

\* confidences are kept as integers, in units of 1/ConfScale
ConfScale == 8 * 7 * 5

LowConfidence == ConfScale \div 2

LlmConfidence == (8 * ConfScale) \div 10

\* number of patterns of the intent that match, over the number of its patterns
IntentScore(intent, text) ==
    LET pats == intent_patterns[intent]
        hits == Cardinality({k \in 1..Len(pats) : ReSearch(pats[k], text)})
    IN (hits * ConfScale) \div Len(pats)

\* variant: among equal top scores the last declared intent wins
BestIntentLast(text) ==
    LET top == CHOOSE i \in 1..Len(IntentNames) :
                   /\ \A j \in 1..Len(IntentNames) :
                          IntentScore(IntentNames[j], text) <= IntentScore(IntentNames[i], text)
                   /\ \A j \in (i + 1)..Len(IntentNames) :
                          IntentScore(IntentNames[j], text) < IntentScore(IntentNames[i], text)
    IN <<IntentNames[top], IntentScore(IntentNames[top], text)>>

\* max(intent_scores.items(), key=score): the first intent, in dict order, with the top score
BestIntent(text) ==
    LET top == CHOOSE i \in 1..Len(IntentNames) :
                   /\ \A j \in 1..Len(IntentNames) :
                          IntentScore(IntentNames[j], text) <= IntentScore(IntentNames[i], text)
                   /\ \A j \in 1..(i - 1) :
                          IntentScore(IntentNames[j], text) < IntentScore(IntentNames[i], text)
    IN <<IntentNames[top], IntentScore(IntentNames[top], text)>>

\* what the text-classification capability may answer, and response.strip().lower()
LlmIntentAnswers == {"note_making", "flashcard_generation", "concept_explanation",
                     "quiz_generation", " Flashcard_Generation ", "flashcards, probably", ""}

StripLower(s) == IF s = " Flashcard_Generation " THEN "flashcard_generation" ELSE s

\* variant: the answer is compared as it came, without strip().lower()
llm_intent_detection_raw(llm) ==
    IF llm = "raise" THEN ""
    ELSE IF \E i \in 1..Len(IntentNames) : IntentNames[i] = llm
         THEN llm
         ELSE ""

\* llm is "raise" when the call throws, else the answer; 0-length string stands for None
llm_intent_detection(llm) ==
    IF llm = "raise" THEN ""
    ELSE IF \E i \in 1..Len(IntentNames) : IntentNames[i] = StripLower(llm)
         THEN StripLower(llm)
         ELSE ""

\* variant: the capability is also consulted at a score of exactly one half
LlmCalledAtHalf(message) == BestIntent(LowerText(message))[2] <= LowConfidence

LlmCalled(message) == BestIntent(LowerText(message))[2] < LowConfidence

detect_intent(message, llm) ==
    LET best == BestIntent(LowerText(message))
    IN IF best[2] < LowConfidence /\ llm_intent_detection(llm) # ""
       THEN <<llm_intent_detection(llm), LlmConfidence>>
       ELSE best

\* positions where "<keyword> X" matches: a token ending with the keyword, one more after it
TopicMatches(kw, text) == {i \in 1..(Len(text) - 1) : EndsWith(text[i].w, kw)}

\* first pattern, in list order, that matches; its leftmost match; group(1) is the next token
TopicIn(text) ==
    IF \E k \in 1..Len(TopicKeywords) : TopicMatches(TopicKeywords[k], text) # {}
    THEN LET k == CHOOSE k \in 1..Len(TopicKeywords) :
                      /\ TopicMatches(TopicKeywords[k], text) # {}
                      /\ \A j \in 1..(k - 1) : TopicMatches(TopicKeywords[j], text) = {}
             i == CHOOSE i \in TopicMatches(TopicKeywords[k], text) :
                      \A j \in TopicMatches(TopicKeywords[k], text) : i <= j
         IN text[i + 1].w
    ELSE ""

\* reversed(chat_history[-3:]), user turns only; "" stands for None
RECURSIVE TopicInHistory(_, _)
TopicInHistory(chat_history, k) ==
    IF k < 1 \/ k <= Len(chat_history) - 3 THEN ""
    ELSE IF chat_history[k].role = "user" /\ TopicIn(LowerText(chat_history[k].content)) # ""
         THEN TopicIn(LowerText(chat_history[k].content))
         ELSE TopicInHistory(chat_history, k - 1)

extract_topic(message, chat_history) ==
    IF TopicIn(message) # "" THEN TopicIn(message)
    ELSE TopicInHistory(chat_history, Len(chat_history))

subjects ==
    << <<"math">>, <<"mathematics">>, <<"calculus">>, <<"algebra">>, <<"geometry">>,
       <<"science">>, <<"physics">>, <<"chemistry">>, <<"biology">>,
       <<"environmental", "science">>, <<"english">>, <<"literature">>, <<"writing">>,
       <<"grammar">>, <<"history">>, <<"social", "studies">>, <<"geography">>,
       <<"computer", "science">>, <<"programming">>, <<"coding">> >>

\* str.title() of each subject
SubjectTitle ==
    <<"Math", "Mathematics", "Calculus", "Algebra", "Geometry", "Science", "Physics",
      "Chemistry", "Biology", "Environmental Science", "English", "Literature", "Writing",
      "Grammar", "History", "Social Studies", "Geography", "Computer Science",
      "Programming", "Coding">>

extract_subject(message) ==
    LET text == LowerText(message)
    IN IF \E k \in 1..Len(subjects) : ReSearch(subjects[k], text)
       THEN SubjectTitle[CHOOSE k \in 1..Len(subjects) :
                             /\ ReSearch(subjects[k], text)
                             /\ \A j \in 1..(k - 1) : ~ReSearch(subjects[j], text)]
       ELSE ""

\* infer_difficulty with the focused branch testing mastery_level > 7
infer_difficulty_strict(context) ==
    LET emotional_state == context.emotional_state
        mastery_level == context.mastery_level
    IN IF emotional_state \in {"confused", "anxious", "tired"} THEN "easy"
       ELSE IF emotional_state = "focused"
            THEN IF Truthy(mastery_level) /\ mastery_level > 7 THEN "hard"
                 ELSE IF Truthy(mastery_level) /\ mastery_level >= 4 THEN "medium"
                 ELSE "easy"
       ELSE IF Truthy(mastery_level)
            THEN IF mastery_level <= 3 THEN "easy"
                 ELSE IF mastery_level <= 6 THEN "medium"
                 ELSE "hard"
       ELSE "medium"

infer_difficulty(context) ==
    LET emotional_state == context.emotional_state
        mastery_level == context.mastery_level
    IN IF emotional_state = "confused" THEN "easy"
       ELSE IF emotional_state = "anxious" THEN "easy"
       ELSE IF emotional_state = "tired" THEN "easy"
       ELSE IF emotional_state = "focused"
            THEN IF Truthy(mastery_level) /\ mastery_level >= 7 THEN "hard"
                 ELSE IF Truthy(mastery_level) /\ mastery_level >= 4 THEN "medium"
                 ELSE "easy"
       ELSE IF Truthy(mastery_level)
            THEN IF mastery_level <= 3 THEN "easy"
                 ELSE IF mastery_level <= 6 THEN "medium"
                 ELSE "hard"
       ELSE "medium"

\* ClampCount without the ceiling
ClampCountNoCeiling(count) == Max(count, 1)

\* min(max(count, 1), 20)
ClampCount(count) == Min(Max(count, 1), 20)

\* positions where pattern k matches: a run of digits, then a token that starts with an alternative
CountMatches(k, text) ==
    {i \in 1..(Len(text) - 1) :
        text[i].n >= 0 /\ \E p \in CountPatterns[k] : StartsWith(text[i + 1].w, p)}

\* 0 stands for None
extract_count(text) ==
    IF \E k \in 1..Len(CountPatterns) : CountMatches(k, text) # {}
    THEN LET k == CHOOSE k \in 1..Len(CountPatterns) :
                      /\ CountMatches(k, text) # {}
                      /\ \A j \in 1..(k - 1) : CountMatches(j, text) = {}
             i == CHOOSE i \in CountMatches(k, text) : \A j \in CountMatches(k, text) : i <= j
         IN ClampCount(text[i].n)
    ELSE 0

\* "<word>" in learning_style
StyleHas(context, word) ==
    \E i \in 1..Len(context.user_info.learning_style_summary) :
        Contains(Lower(context.user_info.learning_style_summary[i].w), word)

infer_note_style(context) ==
    IF StyleHas(context, "outline") \/ StyleHas(context, "structured") THEN "outline"
    ELSE IF StyleHas(context, "bullet") \/ StyleHas(context, "points") THEN "bullet_points"
    ELSE IF StyleHas(context, "narrative") \/ StyleHas(context, "story") THEN "narrative"
    ELSE "structured"

infer_explanation_depth(context) ==
    LET mastery_level == context.mastery_level
        emotional_state == context.emotional_state
    IN IF emotional_state = "confused" THEN "basic"
       ELSE IF emotional_state = "anxious" THEN "basic"
       ELSE IF Truthy(mastery_level)
            THEN IF mastery_level <= 3 THEN "basic"
                 ELSE IF mastery_level <= 6 THEN "intermediate"
                 ELSE IF mastery_level <= 8 THEN "advanced"
                 ELSE "comprehensive"
       ELSE "intermediate"

\* ContextAnalyzer._extract_parameters: a key is set only when its value is truthy
analyzer_extract_parameters(context) ==
    LET message == LowerText(context.current_message)
        topic == extract_topic(message, context.chat_history)
        subject == extract_subject(message)
        count == extract_count(message)
        keys == (IF topic # "" THEN {"topic"} ELSE {})
                \cup (IF subject # "" THEN {"subject"} ELSE {})
                \cup {"difficulty"}
                \cup (IF Truthy(count) THEN {"count"} ELSE {})
                \cup {"note_taking_style", "desired_depth"}
    IN [k \in keys |->
           CASE k = "topic" -> StrV(topic)
             [] k = "subject" -> StrV(subject)
             [] k = "difficulty" -> StrV(infer_difficulty(context))
             [] k = "count" -> IntV(count)
             [] k = "note_taking_style" -> StrV(infer_note_style(context))
             [] k = "desired_depth" -> StrV(infer_explanation_depth(context))]

map_intent_to_tool(intent_type) ==
    CASE intent_type = "note_making" -> "note_maker"
      [] intent_type = "flashcard_generation" -> "flashcard_generator"
      [] intent_type = "concept_explanation" -> "concept_explainer"
      [] intent_type = "quiz_generation" -> "quiz_generator"
      [] OTHER -> "unknown"

required_params ==
    [note_making |-> <<"topic", "subject", "note_taking_style">>,
     flashcard_generation |-> <<"topic", "count", "difficulty", "subject">>,
     concept_explanation |-> <<"concept_to_explain", "current_topic", "desired_depth">>,
     quiz_generation |-> <<"topic", "subject", "difficulty", "count">>]

identify_missing_parameters(intent_type, params) ==
    IF intent_type \in DOMAIN required_params
    THEN SelectSeq(required_params[intent_type], LAMBDA param : param \notin DOMAIN params)
    ELSE <<>>

\* the intent returned when analysis fails inside analyze_context
UnknownIntent ==
    [intent_type |-> "unknown", confidence |-> 0, extracted_parameters |-> EmptyDict,
     missing_parameters |-> <<>>, suggested_tool |-> "none"]

\* llm: outcome of the text-classification call; failed: an exception inside the try block
analyze_context(context, llm, failed) ==
    IF failed THEN UnknownIntent
    ELSE LET detected == detect_intent(context.current_message, llm)
             extracted_params == analyzer_extract_parameters(context)
         IN [intent_type |-> detected[1],
             confidence |-> detected[2],
             extracted_parameters |-> extracted_params,
             missing_parameters |-> identify_missing_parameters(detected[1], extracted_params),
             suggested_tool |-> map_intent_to_tool(detected[1])]

-----------------------------------------------------------------------------
(* Parameter Extractor: parameter_extractor.py *)

tool_schemas ==
    [note_maker |->
        [required |-> <<"user_info", "chat_history", "topic", "subject", "note_taking_style">>,
         optional |-> <<"include_examples", "include_analogies">>],
     flashcard_generator |->
        [required |-> <<"user_info", "topic", "count", "difficulty", "subject">>,
         optional |-> <<"include_examples">>],
     concept_explainer |->
        [required |-> <<"user_info", "chat_history", "concept_to_explain", "current_topic",
                        "desired_depth">>,
         optional |-> <<>>]]

\* what the text-to-structured-data capability may give back: the call or json.loads
\* throws, the JSON is an object, or the JSON is not an object (a list, a number)
LlmParamOutcomes ==
    {[kind |-> "raise", d |-> EmptyDict],
     [kind |-> "dict", d |-> EmptyDict],
     [kind |-> "dict", d |-> [topic |-> StrV("llm topic"), subject |-> StrV("Llm Subject"),
                              count |-> IntV(7), difficulty |-> StrV("medium")]],
     [kind |-> "dict", d |-> [concept_to_explain |-> StrV("llm concept"),
                              current_topic |-> StrV("llm topic"), topic |-> None,
                              count |-> None, desired_depth |-> StrV("advanced")]],
     [kind |-> "nondict", d |-> EmptyDict]}

llm_parameter_extraction(llm) == IF llm.kind = "dict" THEN llm.d ELSE EmptyDict

infer_note_maker_params(context) ==
    [note_taking_style |->
        StrV(IF StyleHas(context, "outline") THEN "outline"
             ELSE IF StyleHas(context, "bullet") THEN "bullet_points"
             ELSE IF StyleHas(context, "narrative") THEN "narrative"
             ELSE "structured"),
     include_examples |-> BoolV(TRUE),
     include_analogies |-> BoolV(context.teaching_style = "visual")]

\* the mastery band of _infer_flashcard_params
MasteryCount(mastery_level) ==
    IF Truthy(mastery_level)
    THEN IF mastery_level <= 3 THEN 5
         ELSE IF mastery_level <= 6 THEN 10
         ELSE 15
    ELSE 10

\* the difficulty branch of _infer_flashcard_params
FlashcardDifficulty(context) ==
    IF context.emotional_state = "confused" \/ context.emotional_state = "anxious" THEN "easy"
    ELSE IF /\ context.emotional_state = "focused"
            /\ Truthy(context.mastery_level)
            /\ context.mastery_level >= 7
         THEN "hard"
    ELSE "medium"

infer_flashcard_params(context) ==
    [count |-> IntV(MasteryCount(context.mastery_level)),
     difficulty |-> StrV(FlashcardDifficulty(context)),
     include_examples |-> BoolV(TRUE)]

\* variant: the advanced band ends below mastery level 8
infer_concept_explainer_params_shallow(context) ==
    [desired_depth |->
        StrV(IF context.emotional_state = "confused" \/ context.emotional_state = "anxious"
             THEN "basic"
             ELSE IF Truthy(context.mastery_level)
                  THEN IF context.mastery_level <= 3 THEN "basic"
                       ELSE IF context.mastery_level <= 6 THEN "intermediate"
                       ELSE IF context.mastery_level < 8 THEN "advanced"
                       ELSE "comprehensive"
             ELSE "intermediate")]

infer_concept_explainer_params(context) ==
    [desired_depth |->
        StrV(IF context.emotional_state = "confused" \/ context.emotional_state = "anxious"
             THEN "basic"
             ELSE IF Truthy(context.mastery_level)
                  THEN IF context.mastery_level <= 3 THEN "basic"
                       ELSE IF context.mastery_level <= 6 THEN "intermediate"
                       ELSE IF context.mastery_level <= 8 THEN "advanced"
                       ELSE "comprehensive"
             ELSE "intermediate")]

\* variant: the contextual pass infers the tool-specific parameters only
infer_from_context_bare(context, tool_name) ==
    CASE tool_name = "note_maker" -> infer_note_maker_params(context)
      [] tool_name = "flashcard_generator" -> infer_flashcard_params(context)
      [] tool_name = "concept_explainer" -> infer_concept_explainer_params(context)
      [] OTHER -> EmptyDict

infer_from_context(context, tool_name) ==
    LET params == [user_info |-> ObjV(context.user_info),
                   chat_history |-> ArrV(context.chat_history)]
    IN CASE tool_name = "note_maker" -> DictUpdate(params, infer_note_maker_params(context))
         [] tool_name = "flashcard_generator" ->
                DictUpdate(params, infer_flashcard_params(context))
         [] tool_name = "concept_explainer" ->
                DictUpdate(params, infer_concept_explainer_params(context))
         [] OTHER -> params

assign_default_values(tool_name) ==
    CASE tool_name = "note_maker" ->
             [include_examples |-> BoolV(TRUE), include_analogies |-> BoolV(FALSE)]
      [] tool_name = "flashcard_generator" ->
             [count |-> IntV(10), include_examples |-> BoolV(TRUE)]
      [] OTHER -> EmptyDict

\* the defaults loop: a key is written only when it is not in params
AddAbsent(params, default_params) ==
    [k \in (DOMAIN params) \cup (DOMAIN default_params) |->
        IF k \in DOMAIN params THEN params[k] ELSE default_params[k]]

\* the four dictionaries that _extract_with_multiple_methods merges, in the order it merges them
ExtractionPasses(intent, context, tool_name, llm) ==
    << intent.extracted_parameters,
       llm_parameter_extraction(llm),
       infer_from_context(context, tool_name),
       assign_default_values(tool_name) >>

\* params.update for the first three passes, then the defaults loop
MergePasses(ps) ==
    AddAbsent(DictUpdate(DictUpdate(DictUpdate(EmptyDict, ps[1]), ps[2]), ps[3]), ps[4])

extract_with_multiple_methods(intent, context, tool_name, llm) ==
    MergePasses(ExtractionPasses(intent, context, tool_name, llm))

SeqToSet(q) == {q[i] : i \in 1..Len(q)}

\* variant: a required parameter counts as given as soon as its key is present
validate_parameters_keep_null(params, tool_name) ==
    LET schema == tool_schemas[tool_name]
        kept == {param \in SeqToSet(schema.required) : param \in DOMAIN params}
                \cup {param \in SeqToSet(schema.optional) : param \in DOMAIN params}
    IN << [param \in kept |-> params[param]],
          SelectSeq(schema.required, LAMBDA param : param \notin DOMAIN params) >>

\* <<validated_params, missing_params>>
validate_parameters(params, tool_name) ==
    LET schema == tool_schemas[tool_name]
        kept == {param \in SeqToSet(schema.required) :
                    param \in DOMAIN params /\ params[param] # None}
                \cup {param \in SeqToSet(schema.optional) : param \in DOMAIN params}
    IN << [param \in kept |-> params[param]],
          SelectSeq(schema.required,
                    LAMBDA param : ~(param \in DOMAIN params /\ params[param] # None)) >>

ExtractionError ==
    [success |-> FALSE, extracted_parameters |-> EmptyDict, missing_parameters |-> <<>>,
     extraction_method |-> "error"]

\* a JSON answer that is not an object makes params.update throw inside the try block
extract_parameters(intent, context, llm) ==
    LET tool_name == intent.suggested_tool
    IN IF tool_name \notin DOMAIN tool_schemas THEN ExtractionError
       ELSE IF llm.kind = "nondict" THEN ExtractionError
       ELSE LET validated ==
                    validate_parameters(
                        extract_with_multiple_methods(intent, context, tool_name, llm),
                        tool_name)
            IN [success |-> Len(validated[2]) = 0,
                extracted_parameters |-> validated[1],
                missing_parameters |-> validated[2],
                extraction_method |-> "hybrid"]

ask_for_parameter(param, context) ==
    CASE param = "topic" ->
             "What specific topic would you like to focus on, " \o context.user_info.name \o "?"
      [] param = "subject" ->
             "What subject area is this related to, " \o context.user_info.name \o "?"
      [] OTHER -> "Please specify " \o param

get_intelligent_default(param) ==
    CASE param = "note_taking_style" -> StrV("structured")
      [] param = "difficulty" -> StrV("medium")
      [] param = "count" -> IntV(10)
      [] param = "desired_depth" -> StrV("intermediate")
      [] param = "include_examples" -> BoolV(TRUE)
      [] param = "include_analogies" -> BoolV(FALSE)
      [] OTHER -> None

fill_missing_parameters(missing_params, context) ==
    [param \in SeqToSet(missing_params) |->
        IF param \in {"topic", "subject"}
        THEN StrV(ask_for_parameter(param, context))
        ELSE get_intelligent_default(param)]

-----------------------------------------------------------------------------
(* Schema Validator: schema_validator.py, the per-field checks *)

validator_schemas ==
    [note_maker |->
        [required_fields |-> <<"user_info", "chat_history", "topic", "subject",
                               "note_taking_style">>,
         optional_fields |-> <<"include_examples", "include_analogies">>,
         field_types |-> [user_info |-> "object", chat_history |-> "array", topic |-> "string",
                          subject |-> "string", note_taking_style |-> "enum",
                          include_examples |-> "boolean", include_analogies |-> "boolean"],
         constraints |-> [topic |-> [min_length |-> 1, max_length |-> 200],
                          subject |-> [min_length |-> 1, max_length |-> 100],
                          note_taking_style |->
                              [enum_values |-> {"outline", "bullet_points", "narrative",
                                                "structured"}],
                          include_examples |-> [type |-> "boolean"],
                          include_analogies |-> [type |-> "boolean"]]],
     flashcard_generator |->
        [required_fields |-> <<"user_info", "topic", "count", "difficulty", "subject">>,
         optional_fields |-> <<"include_examples">>,
         field_types |-> [user_info |-> "object", topic |-> "string", count |-> "integer",
                          difficulty |-> "enum", subject |-> "string",
                          include_examples |-> "boolean"],
         constraints |-> [topic |-> [min_length |-> 1, max_length |-> 200],
                          count |-> [min |-> 1, max |-> 20],
                          difficulty |-> [enum_values |-> {"easy", "medium", "hard"}],
                          subject |-> [min_length |-> 1, max_length |-> 100],
                          include_examples |-> [type |-> "boolean"]]],
     concept_explainer |->
        [required_fields |-> <<"user_info", "chat_history", "concept_to_explain",
                               "current_topic", "desired_depth">>,
         optional_fields |-> <<>>,
         field_types |-> [user_info |-> "object", chat_history |-> "array",
                          concept_to_explain |-> "string", current_topic |-> "string",
                          desired_depth |-> "enum"],
         constraints |-> [concept_to_explain |-> [min_length |-> 1, max_length |-> 200],
                          current_topic |-> [min_length |-> 1, max_length |-> 200],
                          desired_depth |->
                              [enum_values |-> {"basic", "intermediate", "advanced",
                                                "comprehensive"}]]]]

\* isinstance(value, <the Python type of expected_type>); a bool is an int in Python
validate_type(value, expected_type) ==
    CASE expected_type \in {"enum", "string"} -> value.t = "str"
      [] expected_type = "integer" -> value.t \in {"int", "bool"}
      [] expected_type = "boolean" -> value.t = "bool"
      [] expected_type = "array" -> value.t = "arr"
      [] expected_type = "object" -> value.t = "obj"
      [] OTHER -> FALSE

\* the codes of the errors _validate_constraints reports
validate_constraints(value, constraints) ==
    IF value.t = "str"
    THEN (IF "min_length" \in DOMAIN constraints /\ Len(value.v) < constraints.min_length
          THEN {"MIN_LENGTH_VIOLATION"} ELSE {})
         \cup (IF "max_length" \in DOMAIN constraints /\ Len(value.v) > constraints.max_length
               THEN {"MAX_LENGTH_VIOLATION"} ELSE {})
         \cup (IF "enum_values" \in DOMAIN constraints /\ value.v \notin constraints.enum_values
               THEN {"INVALID_ENUM_VALUE"} ELSE {})
    ELSE IF value.t \in {"int", "bool"}
    THEN LET number == IF value.t = "int" THEN value.v ELSE IF value.v THEN 1 ELSE 0
         IN (IF "min" \in DOMAIN constraints /\ number < constraints.min
             THEN {"MIN_VALUE_VIOLATION"} ELSE {})
            \cup (IF "max" \in DOMAIN constraints /\ number > constraints.max
                  THEN {"MAX_VALUE_VIOLATION"} ELSE {})
    ELSE {}

\* the codes of the errors _validate_field reports; the field is valid when there are none
validate_field(field_name, value, schema) ==
    IF field_name \notin DOMAIN schema.field_types THEN {"UNDEFINED_FIELD"}
    ELSE (IF validate_type(value, schema.field_types[field_name])
          THEN {} ELSE {"INVALID_TYPE"})
         \cup validate_constraints(value,
                                   IF field_name \in DOMAIN schema.constraints
                                   THEN schema.constraints[field_name]
                                   ELSE EmptyDict)

(* Schema Validator: validate_tool_request.  The parameters of a request are a     *)
(* function from the field names present to tagged values; an error is a record    *)
(* [code, field]; the list of errors is kept as the set of its elements.           *)

validation_rules ==
    [user_info |->
        [required_fields |-> <<"user_id", "name", "grade_level", "learning_style_summary",
                               "emotional_state_summary", "mastery_level_summary">>,
         field_constraints |->
            [user_id |-> [type |-> "string", min_length |-> 1],
             name |-> [type |-> "string", min_length |-> 1, max_length |-> 100],
             grade_level |-> [type |-> "string", min_length |-> 1],
             learning_style_summary |->
                 [type |-> "string", min_length |-> 1, max_length |-> 500],
             emotional_state_summary |->
                 [type |-> "string", min_length |-> 1, max_length |-> 500],
             mastery_level_summary |->
                 [type |-> "string", min_length |-> 1, max_length |-> 500]]],
     chat_history |->
        [item_constraints |->
            [role |-> [type |-> "string", enum |-> {"user", "assistant"}],
             content |-> [type |-> "string", min_length |-> 1, max_length |-> 2000]],
         array_constraints |-> [min_length |-> 0, max_length |-> 50]]]

\* the "field" entry of the error _validate_constraints builds for a code
ConstraintErrorField(code) ==
    CASE code \in {"MIN_LENGTH_VIOLATION", "MAX_LENGTH_VIOLATION"} -> "string_length"
      [] code = "INVALID_ENUM_VALUE" -> "enum_value"
      [] OTHER -> "integer_value"

ConstraintErrors(value, constraints) ==
    {[code |-> c, field |-> ConstraintErrorField(c)] : c \in validate_constraints(value, constraints)}

\* the errors of _validate_field: a wrong type names the field, a constraint its kind
FieldErrors(field_name, value, schema) ==
    {[code |-> c, field |-> IF c \in {"UNDEFINED_FIELD", "INVALID_TYPE"}
                            THEN field_name ELSE ConstraintErrorField(c)] :
        c \in validate_field(field_name, value, schema)}

\* what a deep check hands back: its errors, or the TypeError it raised
Checked(errors) == [raised |-> FALSE, errors |-> errors]
Raised == [raised |-> TRUE, errors |-> {}]

\* _validate_user_info: "field not in user_info" raises on a value that is no container;
\* a string or a list holding none of the field names misses every field
validate_user_info(user_info) ==
    LET rules == validation_rules.user_info
        fields == {rules.required_fields[i] : i \in 1..Len(rules.required_fields)}
        Missing(field) == [code |-> "MISSING_USER_INFO_FIELD", field |-> "user_info." \o field]
    IN CASE user_info.t \in {"int", "bool", "none"} -> Raised
         [] user_info.t \in {"str", "arr"} -> Checked({Missing(field) : field \in fields})
         [] OTHER ->
              Checked(UNION {IF field \notin DOMAIN user_info.v
                             THEN {Missing(field)}
                             ELSE ConstraintErrors(user_info.v[field],
                                                   IF field \in DOMAIN rules.field_constraints
                                                   THEN rules.field_constraints[field]
                                                   ELSE EmptyDict) :
                             field \in fields})

\* the errors of one element of chat_history, at Python index i
MessageErrors(message, i) ==
    LET rules == validation_rules.chat_history
        at == "chat_history[" \o ToString(i) \o "]"
    IN IF message.t # "obj"
       THEN {[code |-> "INVALID_MESSAGE_TYPE", field |-> at]}
       ELSE (IF "role" \notin DOMAIN message.v
             THEN {[code |-> "MISSING_ROLE", field |-> at \o ".role"]}
             ELSE ConstraintErrors(message.v["role"], rules.item_constraints.role))
            \cup (IF "content" \notin DOMAIN message.v
                  THEN {[code |-> "MISSING_CONTENT", field |-> at \o ".content"]}
                  ELSE ConstraintErrors(message.v["content"], rules.item_constraints.content))

\* the elements "for message in chat_history" visits: the items of a list, the
\* characters of a string, the keys of a dict
IterItems(value) ==
    CASE value.t = "arr" -> value.v
      [] value.t = "str" -> [i \in 1..Len(value.v) |-> StrV("c")]
      [] OTHER -> LET keys == DOMAIN value.v
                      order == CHOOSE s \in [1..Cardinality(keys) -> keys] :
                                   \A k \in keys : \E i \in DOMAIN s : s[i] = k
                  IN [i \in 1..Cardinality(keys) |-> StrV(order[i])]

\* _validate_chat_history: len(chat_history) raises on a value that has no length
validate_chat_history(chat_history) ==
    LET rules == validation_rules.chat_history
    IN IF chat_history.t \in {"int", "bool", "none"} THEN Raised
       ELSE LET items == IterItems(chat_history)
            IN Checked((IF Len(items) < rules.array_constraints.min_length
                        THEN {[code |-> "MIN_ARRAY_LENGTH_VIOLATION",
                               field |-> "chat_history.length"]} ELSE {})
                       \cup (IF Len(items) > rules.array_constraints.max_length
                             THEN {[code |-> "MAX_ARRAY_LENGTH_VIOLATION",
                                    field |-> "chat_history.length"]} ELSE {})
                       \cup UNION {MessageErrors(items[i], i - 1) : i \in 1..Len(items)})

\* variant: the fields the deep checks cover are left out of validated_data
validated_fields_shallow(parameters, schema) ==
    LET fields == (SeqToSet(schema.required_fields) \cup SeqToSet(schema.optional_fields))
                      \ {"user_info", "chat_history"}
        kept == {f \in fields \cap DOMAIN parameters :
                     validate_field(f, parameters[f], schema) = {}}
    IN [f \in kept |-> parameters[f]]

\* validated_data as the two loops fill it: the schema's fields that are present and
\* passed _validate_field
validated_fields(parameters, schema) ==
    LET fields == SeqToSet(schema.required_fields) \cup SeqToSet(schema.optional_fields)
        kept == {f \in fields \cap DOMAIN parameters :
                     validate_field(f, parameters[f], schema) = {}}
    IN [f \in kept |-> parameters[f]]

\* the errors of the loops over required_fields and optional_fields
SchemaFieldErrors(parameters, schema) ==
    UNION {IF f \notin DOMAIN parameters
           THEN {[code |-> "MISSING_REQUIRED", field |-> f]}
           ELSE FieldErrors(f, parameters[f], schema) : f \in SeqToSet(schema.required_fields)}
    \cup UNION {FieldErrors(f, parameters[f], schema) :
                    f \in SeqToSet(schema.optional_fields) \cap DOMAIN parameters}

\* variant: the data collected so far is returned whatever the errors
ValidationResultPartial(errors, validated_data) ==
    [is_valid |-> errors = {}, errors |-> errors, validated_data |-> ObjV(validated_data)]

\* ValidationResult(is_valid=len(errors) == 0, errors=errors, validated_data=... or None)
ValidationResult(errors, validated_data) ==
    [is_valid |-> errors = {},
     errors |-> errors,
     validated_data |-> IF errors = {} THEN ObjV(validated_data) ELSE None]

\* a ValidationResult built with is_valid=False and one error; validated_data defaults to None
Invalid(code, field) ==
    [is_valid |-> FALSE, errors |-> {[code |-> code, field |-> field]}, validated_data |-> None]

validate_tool_request(request) ==
    IF request.tool_name \notin DOMAIN validator_schemas
    THEN Invalid("UNKNOWN_TOOL", "tool_name")
    ELSE LET schema == validator_schemas[request.tool_name]
             parameters == request.parameters
             user_info_validation ==
                 IF "user_info" \in DOMAIN parameters
                 THEN validate_user_info(parameters["user_info"]) ELSE Checked({})
             chat_history_validation ==
                 IF "chat_history" \in DOMAIN parameters
                 THEN validate_chat_history(parameters["chat_history"]) ELSE Checked({})
         IN IF user_info_validation.raised \/ chat_history_validation.raised
            THEN Invalid("VALIDATION_ERROR", "general")
            ELSE ValidationResult(SchemaFieldErrors(parameters, schema)
                                      \cup user_info_validation.errors
                                      \cup chat_history_validation.errors,
                                  validated_fields(parameters, schema))

(* Schema Validator: sanitize_input.  Here a string value is the sequence of its *)
(* characters: a letter, a space, or the null byte.                              *)

Space == " "
NullByte == "\\x00"

Text(chars) == [t |-> "str", v |-> chars]

\* str.strip(): without the whitespace before the first and after the last other character
Strip(s) ==
    LET solid == {i \in 1..Len(s) : s[i] # Space}
    IN IF solid = {} THEN <<>>
       ELSE SubSeq(s, CHOOSE i \in solid : \A j \in solid : i <= j,
                      CHOOSE i \in solid : \A j \in solid : j <= i)

\* str.replace('\x00', '')
RemoveNullBytes(s) == SelectSeq(s, LAMBDA c : c # NullByte)

\* sanitize_input(data) for a dict data: strings are stripped and then freed of null
\* bytes, dicts are sanitized recursively, and of a list only the dict items are
RECURSIVE sanitize_input(_)
sanitize_input(data) ==
    [key \in DOMAIN data |->
        LET value == data[key]
        IN CASE value.t = "str" -> Text(RemoveNullBytes(Strip(value.v)))
             [] value.t = "obj" -> ObjV(sanitize_input(value.v))
             [] value.t = "arr" ->
                    ArrV([i \in 1..Len(value.v) |->
                             IF value.v[i].t = "obj"
                             THEN ObjV(sanitize_input(value.v[i].v))
                             ELSE value.v[i]])
             [] OTHER -> value]

-----------------------------------------------------------------------------
(* Tool Invocation Client: ToolOrchestrator._call_educational_tool *)

tool_endpoints == {"note_maker", "flashcard_generator", "concept_explainer"}

\* the body of an HTTP answer: no content, text that is no JSON, or the JSON value
EmptyBody == [t |-> "empty", v |-> ""]
NotJson == [t |-> "text", v |-> "<html>"]

HttpAnswer(status, body) == [kind |-> "http", status |-> status, body |-> body]
NoAnswer(kind) == [kind |-> kind, status |-> 0, body |-> EmptyBody]

\* what the outbound POST may do in a pipeline run: answer with a status and a body,
\* time out, fail to connect, or throw something else
NetOutcomes ==
    {HttpAnswer(200, ObjV([content |-> StrV("generated")])),
     HttpAnswer(200, NotJson),
     HttpAnswer(500, ObjV([error |-> StrV("generation failed"),
                           error_code |-> StrV("TOOL_ERROR")])),
     HttpAnswer(404, EmptyBody),
     NoAnswer("timeout"),
     NoAnswer("connect_error"),
     NoAnswer("exception")}

ToolResponse(success, data, error, error_code) ==
    [success |-> success, data |-> data, error |-> error, error_code |-> error_code]

\* the response of the last except clause
CallError == ToolResponse(FALSE, None, StrV("Tool call failed"), StrV("CALL_ERROR"))

\* dict.get(key, default) on a decoded JSON object
Get(object, key, default) == IF key \in DOMAIN object THEN object[key] ELSE default

\* variant: a 200 answer is a success whatever its body
http_response_lenient(net) ==
    IF net.status = 200
    THEN ToolResponse(TRUE, IF net.body.t = "obj" THEN net.body ELSE None, None, None)
    ELSE LET error_data == IF net.body.t = "empty" THEN ObjV(EmptyDict) ELSE net.body
         IN IF error_data.t = "obj"
            THEN ToolResponse(FALSE, None,
                              Get(error_data.v, "error", StrV("HTTP " \o ToString(net.status))),
                              Get(error_data.v, "error_code", StrV("HTTP_ERROR")))
            ELSE CallError

\* the branch taken on an HTTP answer; response.json() raises on a body that is no JSON,
\* ToolResponse(data=...) on JSON that is neither an object nor null, and .get on
\* error data that is no object: each lands in the last except clause
http_response(net) ==
    IF net.status = 200
    THEN IF net.body.t \in {"obj", "none"}
         THEN ToolResponse(TRUE, net.body, None, None)
         ELSE CallError
    ELSE LET error_data == IF net.body.t = "empty" THEN ObjV(EmptyDict) ELSE net.body
         IN IF error_data.t = "obj"
            THEN ToolResponse(FALSE, None,
                              Get(error_data.v, "error", StrV("HTTP " \o ToString(net.status))),
                              Get(error_data.v, "error_code", StrV("HTTP_ERROR")))
            ELSE CallError

\* an outbound request is made only for a tool of the endpoint table
RequestSent(request) == request.tool_name \in tool_endpoints

call_educational_tool(request, net) ==
    IF ~RequestSent(request)
    THEN ToolResponse(FALSE, None, StrV("Unknown tool: " \o request.tool_name),
                      StrV("UNKNOWN_TOOL"))
    ELSE CASE net.kind = "http" -> http_response(net)
           [] net.kind = "timeout" ->
                  ToolResponse(FALSE, None, StrV("Tool request timed out"), StrV("TIMEOUT"))
           [] net.kind = "connect_error" ->
                  ToolResponse(FALSE, None,
                               StrV("Could not connect to " \o request.tool_name \o " service"),
                               StrV("CONNECTION_ERROR"))
           [] OTHER -> CallError

-----------------------------------------------------------------------------
(* Dispatch Pipeline: tool_orchestrator.py *)

OrchestratorResponse(success, response, intent, message, context) ==
    [success |-> success, tool_response |-> response, educational_intent |-> intent,
     error_message |-> message, conversation_context |-> context]

\* the guard without the test of the parameters
MissingIntentOnly(intent, params) == intent = None

\* the guard of _validate_request_node: "not intent or not params"
MissingIntentOrParameters(intent, params) == intent = None \/ DOMAIN params = {}

should_execute_tool(step) == IF step = "error" THEN "error" ELSE "execute"

\* the response _handle_error_node builds
ErrorResponse(message, intent, context) ==
    OrchestratorResponse(FALSE, None, intent, message, context)

\* an except clause that returns nothing
OrchestrationErrorMissing == None

\* the response of orchestrate's own except clause
OrchestrationError == OrchestratorResponse(FALSE, None, None, StrV("Orchestration error"), None)

\* the initial_state dictionary orchestrate() builds for one call
initial_state(context) ==
    [conversation_context |-> context, educational_intent |-> None,
     extracted_parameters |-> EmptyDict, tool_request |-> None, tool_response |-> None,
     orchestrator_response |-> None, error_message |-> None, workflow_step |-> "start"]

\* The nodes as functions of the state dictionary they are handed. ext is what the node
\* meets outside the program: the answer of the text capability, the answer of the
\* network, an exception inside the node's try block.
analyze_context_node(state, ext) ==
    IF ext.raises
    THEN [state EXCEPT !.error_message = StrV("Context analysis failed"),
                       !.workflow_step = "error"]
    ELSE [state EXCEPT !.educational_intent =
                           analyze_context(state.conversation_context, ext.llm_intent, FALSE),
                       !.workflow_step = "context_analyzed"]

extract_parameters_node(state, ext) ==
    IF state.educational_intent = None
    THEN [state EXCEPT !.error_message = StrV("No educational intent identified"),
                       !.workflow_step = "error"]
    ELSE IF ext.raises
    THEN [state EXCEPT !.error_message = StrV("Parameter extraction failed"),
                       !.workflow_step = "error"]
    ELSE LET extraction_result ==
                 extract_parameters(state.educational_intent, state.conversation_context,
                                    ext.llm_params)
         IN IF extraction_result.success
            THEN [state EXCEPT !.extracted_parameters = extraction_result.extracted_parameters,
                               !.workflow_step = "parameters_extracted"]
            ELSE [state EXCEPT !.extracted_parameters =
                                   DictUpdate(extraction_result.extracted_parameters,
                                              fill_missing_parameters(
                                                  extraction_result.missing_parameters,
                                                  state.conversation_context)),
                               !.workflow_step = "parameters_filled"]

validate_request_node(state, ext) ==
    IF MissingIntentOrParameters(state.educational_intent, state.extracted_parameters)
    THEN [state EXCEPT !.error_message = StrV("Missing intent or parameters"),
                       !.workflow_step = "error"]
    ELSE IF ext.raises
    THEN [state EXCEPT !.error_message = StrV("Request validation failed"),
                       !.workflow_step = "error"]
    ELSE [state EXCEPT !.tool_request =
                           [tool_name |-> state.educational_intent.suggested_tool,
                            parameters |-> state.extracted_parameters,
                            user_info |-> state.conversation_context.user_info,
                            chat_history |-> state.conversation_context.chat_history],
                       !.workflow_step = "request_validated"]

execute_tool_node(state, ext) ==
    IF state.tool_request = None
    THEN [state EXCEPT !.error_message = StrV("No tool request to execute"),
                       !.workflow_step = "error"]
    ELSE [state EXCEPT !.tool_response =
                           IF ext.raises
                           THEN ToolResponse(FALSE, None, StrV("Tool execution failed"),
                                             StrV("EXECUTION_ERROR"))
                           ELSE call_educational_tool(state.tool_request, ext.net),
                       !.workflow_step = "tool_executed"]

format_response_node(state, ext) ==
    IF ext.raises
    THEN [state EXCEPT !.orchestrator_response =
                           OrchestratorResponse(FALSE, None, None,
                                                StrV("Response formatting failed"), None),
                       !.workflow_step = "error"]
    ELSE [state EXCEPT !.orchestrator_response =
                           OrchestratorResponse(
                               IF state.tool_response # None
                               THEN state.tool_response.success ELSE FALSE,
                               state.tool_response,
                               state.educational_intent,
                               IF state.tool_response # None /\ ~state.tool_response.success
                               THEN state.tool_response.error
                               ELSE None,
                               state.conversation_context),
                       !.workflow_step = "response_formatted"]

handle_error_node(state, ext) ==
    [state EXCEPT !.orchestrator_response =
                      ErrorResponse(state.error_message, state.educational_intent,
                                    state.conversation_context),
                  !.workflow_step = "error_handled"]

WorkflowNodes == {"analyze_context", "extract_parameters", "validate_request",
                  "execute_tool", "format_response", "handle_error"}

\* one node of the compiled graph: the state it leaves and the node its edge leads to;
\* an exception out of handle_error, which has no try block, leaves the workflow
workflow_node(node, state, ext) ==
    CASE node = "analyze_context" ->
             [state |-> analyze_context_node(state, ext), pc |-> "extract_parameters"]
      [] node = "extract_parameters" ->
             [state |-> extract_parameters_node(state, ext), pc |-> "validate_request"]
      [] node = "validate_request" ->
             LET after == validate_request_node(state, ext)
             IN [state |-> after,
                 pc |-> IF should_execute_tool(after.workflow_step) = "execute"
                        THEN "execute_tool" ELSE "handle_error"]
      [] node = "execute_tool" ->
             [state |-> execute_tool_node(state, ext), pc |-> "format_response"]
      [] node = "format_response" ->
             [state |-> format_response_node(state, ext), pc |-> "end"]
      [] node = "handle_error" ->
             IF ext.raises
             THEN [state |-> state, pc |-> "except"]
             ELSE [state |-> handle_error_node(state, ext), pc |-> "end"]

\* what orchestrate() returns once the workflow is over
orchestrate_result(state, left_at) ==
    IF left_at = "end" THEN state.orchestrator_response ELSE OrchestrationError

\* the history variable error_stage keeps the first node that set the error
NoteError(node) == IF error_stage = "none" THEN node ELSE error_stage

-----------------------------------------------------------------------------
(* Conversation contexts a caller may pass to orchestrate *)

NumTok(k) == [w |-> ToString(k), n |-> k]

Nums == {0, 1, 15, 20, MaxN}

EmotionalStates == {"focused", "anxious", "confused", "tired", "none"}

MinMastery == 1
MaxMastery == 10

\* 0: no mastery level given
MasteryLevels == {0} \cup (MinMastery..MaxMastery)

Profiles ==
    {[user_info |-> [user_id |-> "student123", name |-> "Alex", grade_level |-> "10",
                     learning_style_summary |-> Words(<<"visual", "learner">>),
                     emotional_state_summary |-> "focused and motivated",
                     mastery_level_summary |-> "level 7"],
      chat_history |-> <<>>,
      teaching_style |-> "none"],
     [user_info |-> [user_id |-> "student456", name |-> "Sam", grade_level |-> "8",
                     learning_style_summary |-> Words(<<"prefers", "structured", "outline">>),
                     emotional_state_summary |-> "tired",
                     mastery_level_summary |-> "level 2"],
      chat_history |-> <<[role |-> "user", content |-> Words(<<"topic", "cells">>)],
                         [role |-> "assistant", content |-> Words(<<"ok">>)]>>,
      teaching_style |-> "visual"]}

Messages ==
    {<<>>}
    \cup {Words(<<k>>) : k \in {"flashcards", "memorize", "Explain", "summarize", "quiz"}}
    \cup {<<NumTok(k), Word(unit)>> : k \in Nums, unit \in {"cards", "flashcards", "Cards"}}
    \cup {<<Word("i"), Word("need"), NumTok(15), Word("flashcards"), Word("to"),
            Word("memorize"), Word("spanish"), Word("vocabulary")>>,
          <<Word("flashcards"), Word("memorize"), Word("practice"), Word("review"),
            Word("about"), Word("cells"), Word("Biology"), NumTok(15), Word("cards")>>,
          Words(<<"Explain", "photosynthesis">>),
          Words(<<"summarize", "about", "cells", "Biology">>),
          <<Word("about"), NumTok(MaxN), Word("questions")>>}

Contexts ==
    {[user_info |-> p.user_info, chat_history |-> p.chat_history, current_message |-> m,
      teaching_style |-> p.teaching_style, emotional_state |-> e, mastery_level |-> l] :
        p \in Profiles, m \in Messages, e \in EmotionalStates, l \in MasteryLevels}

-----------------------------------------------------------------------------
(* The state machine *)

(* Messages handed to the classifier directly: every sequence of at most MaxWords *)
(* keywords, and two longer ones whose flashcard score reaches one half            *)

ClassifierWords == {"flashcards", "memorize", "practice", "review", "quiz", "test",
                    "summarize", "Explain", "problems"}

RECURSIVE WordSeqs(_)
WordSeqs(n) ==
    IF n = 0 THEN {<<>>}
    ELSE WordSeqs(n - 1)
         \cup {Append(s, Word(w)) : s \in {t \in WordSeqs(n - 1) : Len(t) = n - 1},
                                    w \in ClassifierWords}

ClassifierMessages ==
    WordSeqs(MaxWords)
    \cup {Words(<<"flashcards", "memorize", "practice", "review">>),
          Words(<<"flashcards", "memorize", "practice", "review", "quiz", "test">>)}

(* Requests handed to the validator directly: for each tool a well-formed parameter *)
(* bag, and the bags that differ from it in one or two entries                      *)

\* a string of n characters
RECURSIVE Chars(_)
Chars(n) ==
    IF n = 0 THEN ""
    ELSE LET half == Chars(n \div 2)
         IN IF n % 2 = 0 THEN half \o half ELSE half \o half \o "a"

\* marks an entry the bag does not have
Absent == [t |-> "absent", v |-> "absent"]

Put(bag, field, value) ==
    IF value = Absent
    THEN [g \in DOMAIN bag \ {field} |-> bag[g]]
    ELSE [g \in DOMAIN bag \cup {field} |-> IF g = field THEN value ELSE bag[g]]

GoodUserInfo ==
    [user_id |-> StrV("student123"), name |-> StrV("Alex"), grade_level |-> StrV("10"),
     learning_style_summary |-> StrV("visual learner"),
     emotional_state_summary |-> StrV("focused"),
     mastery_level_summary |-> StrV("level 7")]

Message(role, content) == ObjV([role |-> role, content |-> content])

GoodChatHistory ==
    <<Message(StrV("user"), StrV("Hello")), Message(StrV("assistant"), StrV("Hi there!"))>>

GoodParameters ==
    [note_maker |->
        [user_info |-> ObjV(GoodUserInfo), chat_history |-> ArrV(GoodChatHistory),
         topic |-> StrV("cells"), subject |-> StrV("Biology"),
         note_taking_style |-> StrV("outline"), include_examples |-> BoolV(TRUE)],
     flashcard_generator |->
        [user_info |-> ObjV(GoodUserInfo), topic |-> StrV("cells"), count |-> IntV(5),
         difficulty |-> StrV("easy"), subject |-> StrV("Biology")],
     concept_explainer |->
        [user_info |-> ObjV(GoodUserInfo), chat_history |-> ArrV(GoodChatHistory),
         concept_to_explain |-> StrV("osmosis"), current_topic |-> StrV("cells"),
         desired_depth |-> StrV("basic")]]

\* values of one user_info subfield, around the limits of the field constraints
SubfieldValues(field) ==
    LET constraints == validation_rules.user_info.field_constraints[field]
        limit == IF "max_length" \in DOMAIN constraints
                 THEN constraints.max_length
                 ELSE validation_rules.user_info.field_constraints.name.max_length
    IN {Absent, StrV(""), StrV(Chars(limit)), StrV(Chars(limit + 1)), IntV(5), None}

UserInfoValues ==
    {ObjV(Put(GoodUserInfo, field, value)) :
        field \in DOMAIN GoodUserInfo, value \in UNION {SubfieldValues(f) : f \in DOMAIN GoodUserInfo}}
    \cup {Absent, IntV(5), None, StrV("Alex"), ArrV(<<>>)}

ChatHistoryValues ==
    LET rules == validation_rules.chat_history
        hello == Message(StrV("user"), StrV("Hello"))
    IN {ArrV(<<Message(role, content)>>) :
            role \in {StrV("user"), StrV("assistant"), StrV("system"), IntV(1)},
            content \in {StrV("Hello"), StrV(""), IntV(5),
                         StrV(Chars(rules.item_constraints.content.max_length)),
                         StrV(Chars(rules.item_constraints.content.max_length + 1))}}
       \cup {ArrV(<<>>), ArrV(GoodChatHistory), ArrV(<<StrV("Hello")>>),
             ArrV(<<ObjV([content |-> StrV("Hello")])>>),
             ArrV(<<ObjV([role |-> StrV("user")])>>),
             ArrV([i \in 1..rules.array_constraints.max_length |-> hello]),
             ArrV([i \in 1..(rules.array_constraints.max_length + 1) |-> hello]),
             ObjV([role |-> StrV("user"), content |-> StrV("Hello")]),
             Absent, IntV(5), None, StrV("Hello"), StrV("")}

\* values of a field of the schema, around what its type and constraints allow
FieldValues(field, schema) ==
    LET type == schema.field_types[field]
        constraints == IF field \in DOMAIN schema.constraints
                       THEN schema.constraints[field] ELSE EmptyDict
    IN {Absent}
       \cup CASE field = "user_info" -> UserInfoValues
              [] field = "chat_history" -> ChatHistoryValues
              [] type = "string" ->
                     {StrV(""), StrV("cells"), StrV(Chars(constraints.max_length)),
                      StrV(Chars(constraints.max_length + 1)), IntV(5), None}
              [] type = "enum" ->
                     {StrV(e) : e \in constraints.enum_values} \cup {StrV("other"), IntV(1)}
              [] type = "integer" ->
                     {IntV(n) : n \in (constraints.min - 1)..(constraints.min + 1)}
                     \cup {IntV(n) : n \in (constraints.max - 1)..(constraints.max + 1)}
                     \cup {StrV("5"), BoolV(TRUE), BoolV(FALSE)}
              [] OTHER -> {BoolV(TRUE), BoolV(FALSE), StrV("yes"), IntV(1)}

\* the entries a caller may set: the schema's fields, chat_history, and one unknown field
Entries(tool) ==
    LET schema == validator_schemas[tool]
    IN UNION {{<<f, v>> : v \in FieldValues(f, schema)} : f \in DOMAIN schema.field_types}
       \cup {<<"chat_history", v>> : v \in ChatHistoryValues}
       \cup {<<"notes", StrV("x")>>}

ParameterBags(tool) ==
    {Put(Put(GoodParameters[tool], e1[1], e1[2]), e2[1], e2[2]) :
        e1 \in Entries(tool), e2 \in Entries(tool)}

ValidatorRequests ==
    UNION {{[tool_name |-> tool, parameters |-> bag] : bag \in ParameterBags(tool)} :
               tool \in DOMAIN validator_schemas}
    \cup {[tool_name |-> "quiz_generator", parameters |-> bag] :
              bag \in {EmptyDict, GoodParameters.flashcard_generator}}

(* Data handed to sanitize_input directly: every string of at most MaxChars *)
(* characters, at the places of a dict where a string can sit                *)

CharSeqs == UNION {[1..n -> {"a", Space, NullByte}] : n \in 0..MaxChars}

SanitizerInputs ==
    UNION {{[text |-> Text(s)],
            [text |-> Text(s), count |-> IntV(5)],
            [nested |-> ObjV([value |-> Text(s)])],
            [list |-> ArrV(<<Text(s)>>)],
            [list |-> ArrV(<<ObjV([value |-> Text(s)])>>)],
            [list |-> ArrV(<<ArrV(<<Text(s)>>), IntV(1)>>)]} : s \in CharSeqs}

(* Calls made on the Tool Invocation Client directly: the three tools of the     *)
(* endpoint table and two names outside it, and every way the POST may end       *)

ClientRequests ==
    {[tool_name |-> tool, parameters |-> GoodParameters[tool]] : tool \in tool_endpoints}
    \cup {[tool_name |-> tool, parameters |-> EmptyDict] : tool \in {"quiz_generator", "unknown"}}

HttpBodies ==
    {EmptyBody, NotJson, None, ArrV(<<>>),
     ObjV([content |-> StrV("generated")]),
     ObjV([error |-> StrV("generation failed"), error_code |-> StrV("TOOL_ERROR")]),
     ObjV([error |-> StrV("generation failed")]),
     ObjV([detail |-> StrV("Not Found")]),
     ObjV([error |-> None, error_code |-> None])}

ClientNetOutcomes ==
    {HttpAnswer(status, body) : status \in {200, 201, 400, 404, 500, 502}, body \in HttpBodies}
    \cup {NoAnswer(kind) : kind \in {"timeout", "connect_error", "exception"}}
    \cup NetOutcomes

(* Session store: state_manager.py.  Time is counted in hours. *)

\* self.session_timeout = timedelta(hours=2)
SessionTimeout == 2

\* the chat history of a session keeps its last 50 messages
HistoryLimit == 50

Expired(session, now) == now - session.last_activity > SessionTimeout

\* ConversationSession(session_id, user_id, chat_history=[]) and __post_init__
ConversationSession(session_id, user_id, now) ==
    [session_id |-> session_id, user_id |-> user_id, chat_history |-> <<>>,
     session_start |-> now, last_activity |-> now, tool_interactions |-> <<>>,
     learning_objectives |-> <<>>]

\* The operations as functions of the store they are called on: the store they leave
\* and the value they return.
create_session(sessions, user_id, session_id, now) ==
    LET session == ConversationSession(session_id, user_id, now)
    IN [sessions |-> [sessions EXCEPT ![session_id] = session], returned |-> ObjV(session)]

get_session(sessions, session_id, now) ==
    LET session == sessions[session_id]
    IN IF session # None /\ Expired(session, now)
       THEN [sessions |-> [sessions EXCEPT ![session_id] = None], returned |-> None]
       ELSE [sessions |-> sessions,
             returned |-> IF session = None THEN None ELSE ObjV(session)]

\* setattr for every key of updates the session has, then last_activity = now
update_session(sessions, session_id, updates, now) ==
    LET session == sessions[session_id]
    IN IF session = None
       THEN [sessions |-> sessions, returned |-> BoolV(FALSE)]
       ELSE LET updated == [f \in DOMAIN session |->
                               IF f \in DOMAIN updates THEN updates[f] ELSE session[f]]
            IN [sessions |-> [sessions EXCEPT
                                 ![session_id] = [updated EXCEPT !.last_activity = now]],
                returned |-> BoolV(TRUE)]

LastMessages(chat_history) ==
    IF Len(chat_history) > HistoryLimit
    THEN SubSeq(chat_history, Len(chat_history) - HistoryLimit + 1, Len(chat_history))
    ELSE chat_history

add_message_to_session(sessions, session_id, message, now) ==
    LET session == sessions[session_id]
    IN IF session = None
       THEN [sessions |-> sessions, returned |-> BoolV(FALSE)]
       ELSE [sessions |-> [sessions EXCEPT
                              ![session_id] =
                                  [session EXCEPT
                                      !.chat_history = LastMessages(Append(@, message)),
                                      !.last_activity = now]],
             returned |-> BoolV(TRUE)]

add_tool_interaction(sessions, session_id, tool_name, now) ==
    LET session == sessions[session_id]
    IN IF session = None
       THEN [sessions |-> sessions, returned |-> BoolV(FALSE)]
       ELSE [sessions |-> [sessions EXCEPT
                              ![session_id] =
                                  [session EXCEPT
                                      !.tool_interactions =
                                          Append(@, [timestamp |-> now,
                                                     tool_name |-> tool_name]),
                                      !.last_activity = now]],
             returned |-> BoolV(TRUE)]

get_conversation_context(sessions, profiles, session_id) ==
    LET session == sessions[session_id]
    IN [sessions |-> sessions,
        returned |-> IF session = None THEN None
                     ELSE IF session.user_id \notin profiles THEN None
                     ELSE ObjV([user_id |-> session.user_id,
                                chat_history |-> session.chat_history,
                                current_message |-> ""])]

cleanup_expired_sessions(sessions, now) ==
    LET expired_sessions == {s \in DOMAIN sessions :
                                sessions[s] # None /\ Expired(sessions[s], now)}
    IN [sessions |-> [s \in DOMAIN sessions |->
                         IF s \in expired_sessions THEN None ELSE sessions[s]],
        returned |-> IntV(Cardinality(expired_sessions))]

\* the same store without the session
WithoutSession(sessions, session_id) == [sessions EXCEPT ![session_id] = None]

(* What the callers of the session store pass *)

MaxClock == 4
MaxMessages == 1
MaxInteractions == 1

SessionIds == {"s1"}
UserIds == {"student123"}
SessionMessages == {[role |-> "user", content |-> "hello"]}
SessionUpdates == {[learning_objectives |-> <<"cells">>],
                   [chat_history |-> <<>>, mood |-> "curious"]}

\* the record of one call: the entry it met, what it returned and left, and what the
\* same call returns and leaves on a store that does not hold the session
SessionCall(op, session_id, done, on_missing) ==
    [op |-> op, session_id |-> session_id, at |-> clock,
     before |-> active_sessions[session_id],
     returned |-> done.returned,
     missing_returned |-> on_missing.returned,
     missing_after |-> on_missing.sessions[session_id]]

(* Calls of orchestrate() in flight together on one orchestrator *)

NumRuns == 2

RunIds == 1..NumRuns

ConcurrentContexts ==
    {context \in Contexts :
        /\ context.current_message \in {Words(<<"flashcards">>), Words(<<"quiz">>),
                                        Words(<<"summarize", "about", "cells", "Biology">>)}
        /\ context.emotional_state = "focused"
        /\ context.mastery_level = 7
        /\ context.teaching_style = "none"}

NoOutcome ==
    [llm_intent |-> "not called", llm_params |-> [kind |-> "dict", d |-> EmptyDict],
     net |-> NoAnswer("not sent"), raises |-> FALSE]

\* what a node may meet outside the program when it runs on this state
NodeOutcomes(node, state) ==
    CASE node = "analyze_context" ->
             {[NoOutcome EXCEPT !.llm_intent = llm] :
                 llm \in IF LlmCalled(state.conversation_context.current_message)
                         THEN {"concept_explanation"}
                         ELSE {"not called"}}
      [] node = "extract_parameters" /\ state.educational_intent # None ->
             {[NoOutcome EXCEPT !.llm_params = llm] :
                 llm \in {o \in LlmParamOutcomes : "subject" \in DOMAIN o.d}}
      [] node = "execute_tool" /\ state.tool_request # None ->
             {[NoOutcome EXCEPT !.net = net] :
                 net \in IF RequestSent(state.tool_request)
                         THEN {n \in NetOutcomes :
                                  n.kind = "timeout" \/ (n.status = 200 /\ n.body.t = "obj")}
                         ELSE {NoAnswer("not sent")}}
      [] node = "handle_error" -> {NoOutcome, [NoOutcome EXCEPT !.raises = TRUE]}
      [] OTHER -> {NoOutcome}

\* all calls working on one dictionary kept on the orchestrator
state_of_orchestrator(r) == 1

\* ainvoke(initial_state): each call works on the dictionary built for it
state_of(r) == r

\* the workflow run on its own from a node on, meeting the outcomes met
RECURSIVE RunFrom(_, _, _)
RunFrom(node, state, met) ==
    IF node \notin WorkflowNodes THEN orchestrate_result(state, node)
    ELSE IF met = <<>> THEN None
    ELSE LET after == workflow_node(node, state, Head(met))
         IN RunFrom(after.pc, after.state, Tail(met))

\* orchestrate(context) with no other call in flight
RunAlone(context, met) == RunFrom("analyze_context", initial_state(context), met)

Init ==
    /\ pc = "idle"
    /\ conversation_context = None
    /\ educational_intent = None
    /\ extracted_parameters = EmptyDict
    /\ tool_request = None
    /\ tool_response = None
    /\ orchestrator_response = None
    /\ error_message = None
    /\ workflow_step = "start"
    /\ result = None
    /\ passes = <<>>
    /\ tool_calls = 0
    /\ error_stage = "none"
    /\ classification = None
    /\ validation = None
    /\ sanitization = None
    /\ outbound = <<>>
    /\ invocation = None
    /\ runs = [r \in RunIds |-> [pc |-> "idle", context |-> None, met |-> <<>>,
                                 overlapped |-> FALSE, result |-> None]]
    /\ run_states = [r \in RunIds |-> None]
    /\ components = [tool_endpoints |-> tool_endpoints, tool_schemas |-> tool_schemas,
                     intent_patterns |-> intent_patterns, subjects |-> subjects]
    /\ endpoint_call = None
    /\ active_sessions = [s \in SessionIds |-> None]
    /\ student_profiles = {}
    /\ clock = 0
    /\ session_call = None

\* orchestrate(context): build initial_state and start the workflow
Orchestrate ==
    /\ pc = "idle"
    /\ UNCHANGED <<direct_calls, other_state>>
    /\ \E context \in Contexts : conversation_context' = context
    /\ educational_intent' = None
    /\ extracted_parameters' = EmptyDict
    /\ tool_request' = None
    /\ tool_response' = None
    /\ orchestrator_response' = None
    /\ error_message' = None
    /\ workflow_step' = "start"
    /\ result' = None
    /\ passes' = <<>>
    /\ tool_calls' = 0
    /\ error_stage' = "none"
    /\ outbound' = <<>>
    /\ pc' = "analyze_context"

\* _analyze_context_node; the analyzer call may throw, which leaves the intent unset
AnalyzeContextNode ==
    /\ pc = "analyze_context"
    /\ UNCHANGED <<direct_calls, outbound, other_state>>
    /\ \/ \E failed \in BOOLEAN :
          \E llm \in IF LlmCalled(conversation_context.current_message)
                     THEN LlmIntentAnswers \cup {"raise"}
                     ELSE {"not called"} :
              /\ educational_intent' = analyze_context(conversation_context, llm, failed)
              /\ workflow_step' = "context_analyzed"
              /\ UNCHANGED <<error_message, error_stage>>
       \/ /\ error_message' = StrV("Context analysis failed")
          /\ workflow_step' = "error"
          /\ error_stage' = NoteError("analyze_context")
          /\ UNCHANGED educational_intent
    /\ pc' = "extract_parameters"
    /\ UNCHANGED <<conversation_context, extracted_parameters, tool_request, tool_response,
                   orchestrator_response, result, passes, tool_calls>>

\* _extract_parameters_node; a call into the extractor may throw before anything is stored
ExtractParametersNode ==
    /\ pc = "extract_parameters"
    /\ UNCHANGED <<direct_calls, outbound, other_state>>
    /\ IF educational_intent = None
       THEN /\ error_message' = StrV("No educational intent identified")
            /\ workflow_step' = "error"
            /\ error_stage' = NoteError("extract_parameters")
            /\ UNCHANGED <<extracted_parameters, passes>>
       ELSE \/ \E llm \in LlmParamOutcomes :
                LET extraction_result ==
                        extract_parameters(educational_intent, conversation_context, llm)
                IN /\ IF extraction_result.success
                      THEN /\ extracted_parameters' = extraction_result.extracted_parameters
                           /\ workflow_step' = "parameters_extracted"
                      ELSE /\ extracted_parameters' =
                                  DictUpdate(extraction_result.extracted_parameters,
                                             fill_missing_parameters(
                                                 extraction_result.missing_parameters,
                                                 conversation_context))
                           /\ workflow_step' = "parameters_filled"
                   /\ passes' = IF extraction_result.extraction_method = "hybrid"
                                THEN ExtractionPasses(educational_intent, conversation_context,
                                                      educational_intent.suggested_tool, llm)
                                ELSE <<>>
                   /\ UNCHANGED <<error_message, error_stage>>
            \/ /\ error_message' = StrV("Parameter extraction failed")
               /\ workflow_step' = "error"
               /\ error_stage' = NoteError("extract_parameters")
               /\ UNCHANGED <<extracted_parameters, passes>>
    /\ pc' = "validate_request"
    /\ UNCHANGED <<conversation_context, educational_intent, tool_request, tool_response,
                   orchestrator_response, result, tool_calls>>

\* _validate_request_node, then the conditional edge _should_execute_tool
ValidateRequestNode ==
    /\ pc = "validate_request"
    /\ UNCHANGED <<direct_calls, outbound, other_state>>
    /\ IF MissingIntentOrParameters(educational_intent, extracted_parameters)
       THEN /\ error_message' = StrV("Missing intent or parameters")
            /\ workflow_step' = "error"
            /\ error_stage' = NoteError("validate_request")
            /\ UNCHANGED tool_request
       ELSE \/ /\ tool_request' = [tool_name |-> educational_intent.suggested_tool,
                                   parameters |-> extracted_parameters,
                                   user_info |-> conversation_context.user_info,
                                   chat_history |-> conversation_context.chat_history]
               /\ workflow_step' = "request_validated"
               /\ UNCHANGED <<error_message, error_stage>>
            \/ /\ error_message' = StrV("Request validation failed")
               /\ workflow_step' = "error"
               /\ error_stage' = NoteError("validate_request")
               /\ UNCHANGED tool_request
    /\ pc' = IF should_execute_tool(workflow_step') = "execute"
             THEN "execute_tool"
             ELSE "handle_error"
    /\ UNCHANGED <<conversation_context, educational_intent, extracted_parameters,
                   tool_response, orchestrator_response, result, passes, tool_calls>>

\* _execute_tool_node with an except clause like the other nodes': the error state
ExecuteToolNodeRaising ==
    /\ pc = "execute_tool"
    /\ UNCHANGED <<direct_calls, other_state>>
    /\ IF tool_request = None
       THEN /\ error_message' = StrV("No tool request to execute")
            /\ workflow_step' = "error"
            /\ error_stage' = NoteError("execute_tool")
            /\ UNCHANGED <<tool_response, tool_calls, outbound>>
       ELSE \/ /\ \E net \in NetOutcomes :
                     /\ tool_response' = call_educational_tool(tool_request, net)
                     /\ outbound' = IF RequestSent(tool_request)
                                    THEN Append(outbound, net) ELSE outbound
               /\ workflow_step' = "tool_executed"
               /\ tool_calls' = tool_calls + 1
               /\ UNCHANGED <<error_message, error_stage>>
            \/ /\ error_message' = StrV("Tool execution failed")
               /\ workflow_step' = "error"
               /\ error_stage' = NoteError("execute_tool")
               /\ tool_calls' = tool_calls + 1
               /\ UNCHANGED <<tool_response, outbound>>
    /\ pc' = "format_response"
    /\ UNCHANGED <<conversation_context, educational_intent, extracted_parameters,
                   tool_request, orchestrator_response, result, passes>>

\* _execute_tool_node with one retry: a first call that failed leaves the run in the node
ExecuteToolNodeRetrying ==
    /\ pc = "execute_tool"
    /\ UNCHANGED <<direct_calls, other_state>>
    /\ IF tool_request = None
       THEN /\ error_message' = StrV("No tool request to execute")
            /\ workflow_step' = "error"
            /\ error_stage' = NoteError("execute_tool")
            /\ UNCHANGED <<tool_response, tool_calls, outbound>>
       ELSE /\ \/ \E net \in NetOutcomes :
                     /\ tool_response' = call_educational_tool(tool_request, net)
                     /\ outbound' = IF RequestSent(tool_request)
                                    THEN Append(outbound, net) ELSE outbound
               \/ /\ tool_response' = ToolResponse(FALSE, None,
                                                   StrV("Tool execution failed"),
                                                   StrV("EXECUTION_ERROR"))
                  /\ UNCHANGED outbound
            /\ workflow_step' = "tool_executed"
            /\ tool_calls' = tool_calls + 1
            /\ UNCHANGED <<error_message, error_stage>>
    /\ pc' = IF tool_request # None /\ ~tool_response'.success /\ tool_calls = 0
             THEN "execute_tool"
             ELSE "format_response"
    /\ UNCHANGED <<conversation_context, educational_intent, extracted_parameters,
                   tool_request, orchestrator_response, result, passes>>

\* _execute_tool_node; an exception out of the client call is turned into a failed response
ExecuteToolNode ==
    /\ pc = "execute_tool"
    /\ UNCHANGED <<direct_calls, other_state>>
    /\ IF tool_request = None
       THEN /\ error_message' = StrV("No tool request to execute")
            /\ workflow_step' = "error"
            /\ error_stage' = NoteError("execute_tool")
            /\ UNCHANGED <<tool_response, tool_calls, outbound>>
       ELSE /\ \/ \E net \in NetOutcomes :
                     /\ tool_response' = call_educational_tool(tool_request, net)
                     /\ outbound' = IF RequestSent(tool_request)
                                    THEN Append(outbound, net) ELSE outbound
               \/ /\ tool_response' = ToolResponse(FALSE, None,
                                                   StrV("Tool execution failed"),
                                                   StrV("EXECUTION_ERROR"))
                  /\ UNCHANGED outbound
            /\ workflow_step' = "tool_executed"
            /\ tool_calls' = tool_calls + 1
            /\ UNCHANGED <<error_message, error_stage>>
    /\ pc' = "format_response"
    /\ UNCHANGED <<conversation_context, educational_intent, extracted_parameters,
                   tool_request, orchestrator_response, result, passes>>

\* _format_response_node; building the response may throw
FormatResponseNode ==
    /\ pc = "format_response"
    /\ UNCHANGED <<direct_calls, outbound, other_state>>
    /\ \/ /\ orchestrator_response' =
                 OrchestratorResponse(
                     IF tool_response # None THEN tool_response.success ELSE FALSE,
                     tool_response,
                     educational_intent,
                     IF tool_response # None /\ ~tool_response.success
                     THEN tool_response.error
                     ELSE None,
                     conversation_context)
          /\ workflow_step' = "response_formatted"
          /\ UNCHANGED error_stage
       \/ /\ orchestrator_response' =
                 OrchestratorResponse(FALSE, None, None,
                                      StrV("Response formatting failed"), None)
          /\ workflow_step' = "error"
          /\ error_stage' = NoteError("format_response")
    /\ pc' = "end"
    /\ UNCHANGED <<conversation_context, educational_intent, extracted_parameters,
                   tool_request, tool_response, error_message, result, passes, tool_calls>>

\* _handle_error_node; it has no try block, so an exception leaves the workflow
HandleErrorNode ==
    /\ pc = "handle_error"
    /\ UNCHANGED <<direct_calls, outbound, other_state>>
    /\ \/ /\ orchestrator_response' =
                 ErrorResponse(error_message, educational_intent, conversation_context)
          /\ workflow_step' = "error_handled"
          /\ pc' = "end"
       \/ /\ pc' = "except"
          /\ UNCHANGED <<orchestrator_response, workflow_step>>
    /\ UNCHANGED <<conversation_context, educational_intent, extracted_parameters,
                   tool_request, tool_response, error_message, result, passes, tool_calls,
                   error_stage>>

\* orchestrate returns final_state's orchestrator_response
OrchestrateReturn ==
    /\ pc = "end"
    /\ UNCHANGED <<direct_calls, outbound, other_state>>
    /\ result' = orchestrator_response
    /\ pc' = "returned"
    /\ UNCHANGED <<conversation_context, educational_intent, extracted_parameters,
                   tool_request, tool_response, orchestrator_response, error_message,
                   workflow_step, passes, tool_calls, error_stage>>

\* orchestrate's except clause
OrchestrateExcept ==
    /\ pc = "except"
    /\ UNCHANGED <<direct_calls, outbound, other_state>>
    /\ result' = OrchestrationError
    /\ pc' = "returned"
    /\ UNCHANGED <<conversation_context, educational_intent, extracted_parameters,
                   tool_request, tool_response, orchestrator_response, error_message,
                   workflow_step, passes, tool_calls, error_stage>>

\* one call of _detect_intent(message); the capability answers only when it is called
DetectIntent ==
    /\ classification = None
    /\ \E message \in ClassifierMessages :
         \E llm \in (IF LlmCalled(message) THEN LlmIntentAnswers \cup {"raise"}
                                           ELSE {"not called"}) :
            classification' =
                [message |-> message,
                 llm |-> llm,
                 intent_scores |-> [i \in 1..Len(IntentNames) |->
                                        IntentScore(IntentNames[i], LowerText(message))],
                 best_intent |-> BestIntent(LowerText(message)),
                 result |-> detect_intent(message, llm)]
    /\ UNCHANGED <<pc, conversation_context, educational_intent, extracted_parameters,
                   tool_request, tool_response, orchestrator_response, error_message,
                   workflow_step, result, passes, tool_calls, error_stage,
                   validation, sanitization, outbound, invocation, other_state>>

\* one call of validate_tool_request(tool_request)
ValidateToolRequest ==
    /\ validation = None
    /\ \E request \in ValidatorRequests :
           validation' = [request |-> request,
                          result |-> validate_tool_request(request),
                          again |-> None]
    /\ UNCHANGED <<pc, conversation_context, educational_intent, extracted_parameters,
                   tool_request, tool_response, orchestrator_response, error_message,
                   workflow_step, result, passes, tool_calls, error_stage,
                   classification, sanitization, outbound, invocation, other_state>>

\* the caller validates the validated_data of a valid result against the same schema
ValidateAgain ==
    /\ validation # None
    /\ validation.again = None
    /\ validation.result.validated_data # None
    /\ validation' =
           [validation EXCEPT
               !.again = validate_tool_request(
                             [tool_name |-> validation.request.tool_name,
                              parameters |-> validation.result.validated_data.v])]
    /\ UNCHANGED <<pc, conversation_context, educational_intent, extracted_parameters,
                   tool_request, tool_response, orchestrator_response, error_message,
                   workflow_step, result, passes, tool_calls, error_stage,
                   classification, sanitization, outbound, invocation, other_state>>

\* one call of sanitize_input(data)
SanitizeInput ==
    /\ sanitization = None
    /\ \E data \in SanitizerInputs :
           sanitization' = [data |-> data, sanitized |-> sanitize_input(data)]
    /\ UNCHANGED <<pc, conversation_context, educational_intent, extracted_parameters,
                   tool_request, tool_response, orchestrator_response, error_message,
                   workflow_step, result, passes, tool_calls, error_stage,
                   classification, validation, outbound, invocation, other_state>>

\* one call of _call_educational_tool(tool_request); net is what the POST meets when
\* it is made
CallEducationalTool ==
    /\ invocation = None
    /\ \E request \in ClientRequests :
         \E net \in (IF RequestSent(request) THEN ClientNetOutcomes ELSE {NoAnswer("not sent")}) :
            invocation' = [request |-> request,
                           net |-> net,
                           response |-> call_educational_tool(request, net)]
    /\ UNCHANGED <<pc, conversation_context, educational_intent, extracted_parameters,
                   tool_request, tool_response, orchestrator_response, error_message,
                   workflow_step, result, passes, tool_calls, error_stage,
                   classification, validation, sanitization, outbound, other_state>>

\* orchestrate(context) called while other calls may be in flight
ConcurrentOrchestrate(r) ==
    /\ runs[r].pc = "idle"
    /\ \E context \in ConcurrentContexts :
          /\ runs' = [runs EXCEPT ![r].pc = "analyze_context", ![r].context = context]
          /\ run_states' = [run_states EXCEPT ![state_of(r)] = initial_state(context)]
    /\ UNCHANGED <<components, single_run, direct_calls, endpoint_call, session_store>>

\* one node of call r runs; the other calls stand at an await
ConcurrentNode(r) ==
    /\ runs[r].pc \in WorkflowNodes
    /\ \E ext \in NodeOutcomes(runs[r].pc, run_states[state_of(r)]) :
          LET after == workflow_node(runs[r].pc, run_states[state_of(r)], ext)
          IN /\ run_states' = [run_states EXCEPT ![state_of(r)] = after.state]
             /\ runs' = [runs EXCEPT
                            ![r].pc = after.pc,
                            ![r].met = Append(@, ext),
                            ![r].overlapped =
                                @ \/ \E q \in RunIds \ {r} :
                                         runs[q].pc \in WorkflowNodes]
    /\ UNCHANGED <<components, single_run, direct_calls, endpoint_call, session_store>>

\* call r returns final_state's orchestrator_response, or its except clause answers
ConcurrentReturn(r) ==
    /\ runs[r].pc \in {"end", "except"}
    /\ runs' = [runs EXCEPT
                   ![r].pc = "returned",
                   ![r].result = orchestrate_result(run_states[state_of(r)], runs[r].pc)]
    /\ UNCHANGED <<run_states, components, single_run, direct_calls, endpoint_call,
                   session_store>>

ConcurrentNext ==
    \/ \E r \in RunIds : ConcurrentOrchestrate(r)
    \/ \E r \in RunIds : ConcurrentNode(r)
    \/ \E r \in RunIds : ConcurrentReturn(r)

\* POST /orchestrate: the handler validates a request named 'unknown' that carries the
\* context as its parameters, and calls orchestrate(context) only when the result is valid
OrchestrateRequest ==
    /\ endpoint_call = None
    /\ \E context \in Contexts :
          LET validation_result ==
                  validate_tool_request([tool_name |-> "unknown", parameters |-> context])
          IN endpoint_call' =
                 [context |-> context,
                  validation_result |-> validation_result,
                  orchestrated |-> validation_result.is_valid,
                  response |-> IF validation_result.is_valid
                               THEN "orchestrate(context)"
                               ELSE "Input validation failed"]
    /\ UNCHANGED <<single_run, direct_calls, concurrent, session_store>>

\* datetime.now() moves on
Tick ==
    /\ clock < MaxClock
    /\ clock' = clock + 1
    /\ UNCHANGED <<active_sessions, student_profiles, session_call,
                   single_run, direct_calls, concurrent, endpoint_call>>

\* create_student_profile(user_info)
CreateStudentProfile ==
    /\ \E user_id \in UserIds :
          /\ user_id \notin student_profiles
          /\ student_profiles' = student_profiles \cup {user_id}
    /\ UNCHANGED <<active_sessions, clock, session_call,
                   single_run, direct_calls, concurrent, endpoint_call>>

CreateSession ==
    /\ \E user_id \in UserIds, session_id \in SessionIds :
          LET done == create_session(active_sessions, user_id, session_id, clock)
              on_missing == create_session(WithoutSession(active_sessions, session_id),
                                           user_id, session_id, clock)
          IN /\ active_sessions' = done.sessions
             /\ session_call' = SessionCall("create_session", session_id, done, on_missing)
    /\ UNCHANGED <<student_profiles, clock,
                   single_run, direct_calls, concurrent, endpoint_call>>

GetSession ==
    /\ \E session_id \in SessionIds :
          LET done == get_session(active_sessions, session_id, clock)
              on_missing == get_session(WithoutSession(active_sessions, session_id),
                                        session_id, clock)
          IN /\ active_sessions' = done.sessions
             /\ session_call' = SessionCall("get_session", session_id, done, on_missing)
    /\ UNCHANGED <<student_profiles, clock,
                   single_run, direct_calls, concurrent, endpoint_call>>

UpdateSession ==
    /\ \E session_id \in SessionIds, updates \in SessionUpdates :
          LET done == update_session(active_sessions, session_id, updates, clock)
              on_missing == update_session(WithoutSession(active_sessions, session_id),
                                           session_id, updates, clock)
          IN /\ active_sessions' = done.sessions
             /\ session_call' = SessionCall("update_session", session_id, done, on_missing)
    /\ UNCHANGED <<student_profiles, clock,
                   single_run, direct_calls, concurrent, endpoint_call>>

AddMessageToSession ==
    /\ \E session_id \in SessionIds, message \in SessionMessages :
          /\ active_sessions[session_id] # None =>
                 Len(active_sessions[session_id].chat_history) < MaxMessages
          /\ LET done == add_message_to_session(active_sessions, session_id, message, clock)
                 on_missing ==
                     add_message_to_session(WithoutSession(active_sessions, session_id),
                                            session_id, message, clock)
             IN /\ active_sessions' = done.sessions
                /\ session_call' =
                       SessionCall("add_message_to_session", session_id, done, on_missing)
    /\ UNCHANGED <<student_profiles, clock,
                   single_run, direct_calls, concurrent, endpoint_call>>

AddToolInteraction ==
    /\ \E session_id \in SessionIds :
          /\ active_sessions[session_id] # None =>
                 Len(active_sessions[session_id].tool_interactions) < MaxInteractions
          /\ LET done == add_tool_interaction(active_sessions, session_id,
                                              "note_maker", clock)
                 on_missing ==
                     add_tool_interaction(WithoutSession(active_sessions, session_id),
                                          session_id, "note_maker", clock)
             IN /\ active_sessions' = done.sessions
                /\ session_call' =
                       SessionCall("add_tool_interaction", session_id, done, on_missing)
    /\ UNCHANGED <<student_profiles, clock,
                   single_run, direct_calls, concurrent, endpoint_call>>

GetConversationContext ==
    /\ \E session_id \in SessionIds :
          LET done == get_conversation_context(active_sessions, student_profiles,
                                               session_id)
              on_missing ==
                  get_conversation_context(WithoutSession(active_sessions, session_id),
                                           student_profiles, session_id)
          IN /\ active_sessions' = done.sessions
             /\ session_call' =
                    SessionCall("get_conversation_context", session_id, done, on_missing)
    /\ UNCHANGED <<student_profiles, clock,
                   single_run, direct_calls, concurrent, endpoint_call>>

CleanupExpiredSessions ==
    /\ LET done == cleanup_expired_sessions(active_sessions, clock)
       IN /\ active_sessions' = done.sessions
          /\ session_call' = [op |-> "cleanup_expired_sessions", session_id |-> "all",
                              at |-> clock, before |-> None, returned |-> done.returned,
                              missing_returned |-> done.returned, missing_after |-> None]
    /\ UNCHANGED <<student_profiles, clock,
                   single_run, direct_calls, concurrent, endpoint_call>>

SessionNext ==
    \/ Tick
    \/ CreateStudentProfile
    \/ CreateSession
    \/ GetSession
    \/ UpdateSession
    \/ AddMessageToSession
    \/ AddToolInteraction
    \/ GetConversationContext
    \/ CleanupExpiredSessions

Next ==
    \/ Orchestrate
    \/ AnalyzeContextNode
    \/ ExtractParametersNode
    \/ ValidateRequestNode
    \/ ExecuteToolNode
    \/ FormatResponseNode
    \/ HandleErrorNode
    \/ OrchestrateReturn
    \/ OrchestrateExcept

Spec == Init /\ [][Next]_vars

\* the classifier called on its own
ClassifierSpec == Init /\ [][DetectIntent]_vars

ValidatorNext ==
    \/ ValidateToolRequest
    \/ ValidateAgain

\* the validator called on its own
ValidatorSpec == Init /\ [][ValidatorNext]_vars

\* sanitize_input called on its own
SanitizerSpec == Init /\ [][SanitizeInput]_vars

\* the Tool Invocation Client called on its own
ClientSpec == Init /\ [][CallEducationalTool]_vars

\* several calls of orchestrate() on one orchestrator
ConcurrentSpec == Init /\ [][ConcurrentNext]_vars

\* the POST /orchestrate handler called on its own
EndpointSpec == Init /\ [][OrchestrateRequest]_vars

\* the session store called on its own
SessionSpec == Init /\ [][SessionNext]_vars

-----------------------------------------------------------------------------
(* Properties *)

\* C1: orchestrate never raises and never returns null: whatever the collaborators did,
\* a run that has returned has handed back a response object with a boolean success.
C1_AlwaysReturnsResponse ==
    pc = "returned" => (result # None /\ result.success \in BOOLEAN)

\* C1 witness: the client call threw inside execute_tool and orchestrate still returned
\* a response
C1_Witness ==
    /\ pc = "returned"
    /\ result # None
    /\ tool_response # None
    /\ tool_response.error_code = StrV("EXECUTION_ERROR")

\* C2 (as claimed): every ToolRequest built by the pipeline carries each required field of
\* the selected tool's schema, with a non-null value that passes the field's type and
\* constraint checks.
C2_RequestSchemaValid ==
    tool_request # None =>
        LET schema == validator_schemas[tool_request.tool_name]
        IN \A i \in 1..Len(schema.required_fields) :
               LET field == schema.required_fields[i]
               IN /\ field \in DOMAIN tool_request.parameters
                  /\ tool_request.parameters[field] # None
                  /\ validate_field(field, tool_request.parameters[field], schema) = {}

\* C3 (as claimed): when the workflow has run to its END, workflow_step is
\* response_formatted or error_handled, and it is error_handled whenever some node had
\* set the error state.
C3_EndsInTerminalStep ==
    pc = "end" =>
        /\ workflow_step \in {"response_formatted", "error_handled"}
        /\ error_stage # "none" => workflow_step = "error_handled"

\* C4: a run whose ToolRequest has been built (request_validated) stands before
\* execute_tool, and the step it takes from there ends in tool_executed with a non-null
\* ToolResponse and with no error recorded, whatever the client call did.
C4_RequestLeadsToToolExecuted ==
    [][workflow_step = "request_validated" =>
           /\ pc = "execute_tool"
           /\ tool_request # None
           /\ workflow_step' = "tool_executed"
           /\ tool_response' # None
           /\ tool_response'.success \in BOOLEAN
           /\ error_stage' = "none"
           /\ pc' = "format_response"]_vars

\* C4 witness: the tool call failed and the run is at tool_executed with a failed response
C4_Witness ==
    /\ workflow_step = "tool_executed"
    /\ tool_request # None
    /\ tool_response # None
    /\ ~tool_response.success
    /\ error_stage = "none"

\* C5: once a node before dispatch has set the error state, workflow_step stays error
\* until handle_error makes it error_handled, no ToolRequest is built, the client is not
\* called, and the run never enters execute_tool or format_response.
C5_ErrorBeforeDispatchIsKept ==
    error_stage \in {"analyze_context", "extract_parameters", "validate_request"} =>
        /\ workflow_step \in {"error", "error_handled"}
        /\ tool_calls = 0
        /\ tool_request = None
        /\ tool_response = None
        /\ pc \in {"extract_parameters", "validate_request", "handle_error", "end", "except",
                   "returned"}
        /\ pc = "end" => workflow_step = "error_handled"

\* C5 witness: the extractor threw although an intent had been found, and the run ended
\* in error_handled
C5_Witness ==
    /\ error_stage = "extract_parameters"
    /\ educational_intent # None
    /\ educational_intent.suggested_tool \in DOMAIN tool_schemas
    /\ pc = "returned"
    /\ workflow_step = "error_handled"

\* the first of the passes that wrote key k
FirstWriter(ps, k) == ps[CHOOSE i \in 1..Len(ps) :
                            k \in DOMAIN ps[i] /\ \A j \in 1..(i - 1) : k \notin DOMAIN ps[j]][k]

\* C6 (as claimed): in the merged parameters every key holds the value of the first pass
\* that wrote it (classifier, then external extraction, then contextual inference, then
\* defaults).
C6_FirstWriterWins ==
    passes # <<>> =>
        \A k \in DOMAIN MergePasses(passes) : MergePasses(passes)[k] = FirstWriter(passes, k)

\* the number N of the first "N flashcards" / "N cards" in the message, 0 when there is none
StatedCardCount(message) ==
    LET at == {i \in 1..(Len(message) - 1) :
                  message[i].n >= 0 /\ Lower(message[i + 1].w) \in {"flashcards", "cards"}}
    IN IF at = {} THEN 0 ELSE message[CHOOSE i \in at : \A j \in at : i <= j].n

\* C7 (as claimed): for flashcard_generator, a count N in 1..20 stated in the message is
\* the count of the final extracted parameters.
C7_ExplicitCountWins ==
    (/\ workflow_step \in {"parameters_extracted", "parameters_filled"}
     /\ educational_intent.suggested_tool = "flashcard_generator"
     /\ passes # <<>>
     /\ StatedCardCount(conversation_context.current_message) \in 1..20)
        => /\ "count" \in DOMAIN extracted_parameters
           /\ extracted_parameters["count"] =
                  IntV(StatedCardCount(conversation_context.current_message))

\* the number N of the first "N cards/questions/notes/items" in the message, -1 when none
StatedUnitCount(message) ==
    LET at == {i \in 1..(Len(message) - 1) :
                  /\ message[i].n >= 0
                  /\ Lower(message[i + 1].w) \in {"card", "cards", "question", "questions",
                                                  "note", "notes", "item", "items"}}
    IN IF at = {} THEN -1 ELSE message[CHOOSE i \in at : \A j \in at : i <= j].n

\* C8: a count stored by the classifier is an integer within 1..20, and when the message
\* says "N cards/questions/notes/items" it is max(1, min(N, 20)).
C8_StoredCountClamped ==
    (educational_intent # None /\ "count" \in DOMAIN educational_intent.extracted_parameters)
        => LET count == educational_intent.extracted_parameters["count"]
               n == StatedUnitCount(conversation_context.current_message)
           IN /\ count.t = "int"
              /\ 1 <= count.v /\ count.v <= 20
              /\ n >= 0 => count.v = Max(1, Min(n, 20))

\* C8 witness: "0 cards" stored as 1 and "MaxN cards" stored as 20 both occur; this is the
\* first of the two
C8_Witness ==
    /\ educational_intent # None
    /\ "count" \in DOMAIN educational_intent.extracted_parameters
    /\ StatedUnitCount(conversation_context.current_message) = 0
    /\ educational_intent.extracted_parameters["count"] = IntV(1)

\* the difficulty table of the specification
DifficultyRule(emotional_state, mastery_level) ==
    CASE emotional_state \in {"confused", "anxious", "tired"} -> "easy"
      [] emotional_state = "focused" ->
             (CASE mastery_level >= 7 -> "hard"
                [] mastery_level \in 4..6 -> "medium"
                [] OTHER -> "easy")
      [] emotional_state = "none" /\ mastery_level # 0 ->
             (CASE mastery_level <= 3 -> "easy"
                [] mastery_level \in 4..6 -> "medium"
                [] OTHER -> "hard")
      [] OTHER -> "medium"

\* C9: the difficulty the classifier puts in its extracted parameters is the one the
\* table gives for the context's emotional state and mastery level.
C9_ClassifierDifficultyTable ==
    (educational_intent # None /\ educational_intent.intent_type # "unknown")
        => /\ "difficulty" \in DOMAIN educational_intent.extracted_parameters
           /\ educational_intent.extracted_parameters["difficulty"] =
                  StrV(DifficultyRule(conversation_context.emotional_state,
                                      conversation_context.mastery_level))

\* C9 witness: a focused student at the lower edge of the top band gets hard
C9_Witness ==
    /\ educational_intent # None
    /\ conversation_context.emotional_state = "focused"
    /\ conversation_context.mastery_level = 7
    /\ "difficulty" \in DOMAIN educational_intent.extracted_parameters
    /\ educational_intent.extracted_parameters["difficulty"] = StrV("hard")

\* C10 (as claimed): for flashcard_generator the contextual pass infers the classifier's
\* difficulty, and the final parameters carry the value of the difficulty table.
C10_ExtractorDifficultyAgrees ==
    (/\ workflow_step \in {"parameters_extracted", "parameters_filled"}
     /\ educational_intent.suggested_tool = "flashcard_generator"
     /\ passes # <<>>)
        => /\ passes[3]["difficulty"] = passes[1]["difficulty"]
           /\ extracted_parameters["difficulty"] =
                  StrV(DifficultyRule(conversation_context.emotional_state,
                                      conversation_context.mastery_level))

\* the explanation-depth table, stated by bands of the mastery level (0: none given)
DepthRule(emotional_state, mastery_level) ==
    CASE emotional_state \in {"confused", "anxious"} -> "basic"
      [] OTHER ->
           CASE mastery_level = 0 -> "intermediate"
             [] mastery_level \in 1..3 -> "basic"
             [] mastery_level \in 4..6 -> "intermediate"
             [] mastery_level \in 7..8 -> "advanced"
             [] OTHER -> "comprehensive"

\* C11: the classifier's desired_depth is the one of the depth table, and for
\* concept_explainer the extractor's contextual pass infers the same depth as the classifier.
C11_DepthRuleAgrees ==
    /\ (educational_intent # None /\ educational_intent.intent_type # "unknown")
          => /\ "desired_depth" \in DOMAIN educational_intent.extracted_parameters
             /\ educational_intent.extracted_parameters["desired_depth"] =
                    StrV(DepthRule(conversation_context.emotional_state,
                                   conversation_context.mastery_level))
    /\ (passes # <<>> /\ educational_intent.suggested_tool = "concept_explainer")
          => /\ "desired_depth" \in DOMAIN passes[3]
             /\ passes[3]["desired_depth"] = passes[1]["desired_depth"]
             /\ passes[3]["desired_depth"] =
                    StrV(DepthRule(conversation_context.emotional_state,
                                   conversation_context.mastery_level))

\* C11 witness: a tired student at the upper edge of the advanced band, both passes agree
C11_Witness ==
    /\ passes # <<>>
    /\ educational_intent.suggested_tool = "concept_explainer"
    /\ conversation_context.emotional_state = "tired"
    /\ conversation_context.mastery_level = 8
    /\ passes[1]["desired_depth"] = StrV("advanced")
    /\ passes[3]["desired_depth"] = StrV("advanced")

\* the one-word patterns of a category
Keywords(intent) ==
    {intent_patterns[intent][k][1] :
        k \in {j \in 1..Len(intent_patterns[intent]) : Len(intent_patterns[intent][j]) = 1}}

OnlyWordsOf(message, words) ==
    /\ message # <<>>
    /\ \A i \in 1..Len(message) : message[i].w \in words

KnownCategory(answer) == \E i \in 1..Len(IntentNames) : IntentNames[i] = answer

\* C12 (as claimed): a message made only of keywords of the flashcard pattern set is
\* classified flashcard_generation with a confidence above 0, whatever the capability did.
C12_FlashcardKeywordsAlwaysFlashcards ==
    (/\ classification # None
     /\ OnlyWordsOf(classification.message, Keywords("flashcard_generation")))
        => /\ classification.result[1] = "flashcard_generation"
           /\ classification.result[2] > 0

\* C12 (amended): a message made only of keywords that the flashcard pattern set shares
\* with no other category is classified flashcard_generation with a confidence above 0,
\* unless its pattern score is below one half and the capability answers a known category:
\* then the result is that category with confidence 0.8.
C12_FlashcardKeywordsUnlessOverridden ==
    (/\ classification # None
     /\ OnlyWordsOf(classification.message,
                    Keywords("flashcard_generation") \ Keywords("quiz_generation")))
        => IF /\ 2 * classification.best_intent[2] < ConfScale
              /\ classification.llm # "raise"
              /\ KnownCategory(StripLower(classification.llm))
           THEN /\ classification.result[1] = StripLower(classification.llm)
                /\ 10 * classification.result[2] = 8 * ConfScale
           ELSE /\ classification.result[1] = "flashcard_generation"
                /\ classification.result[2] > 0

\* C12 witness: "flashcards memorize" with an unusable answer stays flashcard_generation
C12_Witness ==
    /\ classification # None
    /\ classification.message = Words(<<"flashcards", "memorize">>)
    /\ classification.llm = "flashcards, probably"
    /\ classification.result = <<"flashcard_generation", (2 * ConfScale) \div 8>>

\* C13: each category's score is its matching patterns over its patterns, the pattern
\* result is the first declared category with the top score, and every confidence
\* returned lies within [0, 1].
C13_PatternScoreAndTieBreak ==
    classification # None =>
        LET text == LowerText(classification.message)
            scores == classification.intent_scores
            best == classification.best_intent
        IN /\ \A i \in 1..Len(IntentNames) :
                  LET pats == intent_patterns[IntentNames[i]]
                  IN scores[i] * Len(pats) =
                         ConfScale * Cardinality({k \in 1..Len(pats) : ReSearch(pats[k], text)})
           /\ \E i \in 1..Len(IntentNames) :
                  /\ best = <<IntentNames[i], scores[i]>>
                  /\ \A j \in 1..Len(IntentNames) : scores[j] <= scores[i]
                  /\ \A j \in 1..(i - 1) : scores[j] < scores[i]
           /\ best[2] \in 0..ConfScale
           /\ classification.result[2] \in 0..ConfScale

\* C13 witness: "flashcards Explain" scores 1/8 for two categories, the first declared wins
C13_Witness ==
    /\ classification # None
    /\ classification.message = Words(<<"flashcards", "Explain">>)
    /\ classification.intent_scores[2] = classification.intent_scores[3]
    /\ classification.best_intent = <<"flashcard_generation", ConfScale \div 8>>

\* C14: the capability is called exactly when the best pattern score is below one half;
\* a known category it answers replaces the pattern result with confidence 0.8; any
\* other answer, or a call that throws, leaves the pattern category and score.
C14_LlmFallback ==
    classification # None =>
        LET below == 2 * classification.best_intent[2] < ConfScale
            llm == classification.llm
        IN /\ (llm # "not called") <=> below
           /\ IF below /\ llm # "raise" /\ KnownCategory(StripLower(llm))
              THEN /\ classification.result[1] = StripLower(llm)
                   /\ 10 * classification.result[2] = 8 * ConfScale
              ELSE classification.result = classification.best_intent

\* C14 witness: the call throws on "quiz" and the pattern result quiz_generation 1/7 stays
C14_Witness ==
    /\ classification # None
    /\ classification.message = Words(<<"quiz">>)
    /\ classification.llm = "raise"
    /\ classification.result = <<"quiz_generation", ConfScale \div 7>>

KnownTool(request) == request.tool_name \in DOMAIN validator_schemas

\* C15 (as claimed): validating a request for a known tool that lacks a required field
\* reports a MISSING_REQUIRED error for that field, is not valid and returns no data.
C15_MissingRequiredReported ==
    (validation # None /\ KnownTool(validation.request)) =>
        \A f \in SeqToSet(validator_schemas[validation.request.tool_name].required_fields) :
            f \notin DOMAIN validation.request.parameters
                => /\ [code |-> "MISSING_REQUIRED", field |-> f] \in validation.result.errors
                   /\ ~validation.result.is_valid
                   /\ validation.result.validated_data = None

\* C16: a validation result is valid exactly when it has no error, carries data exactly
\* when it is valid, and the data it carries holds every required field of the schema.
C16_ResultConsistent ==
    validation # None =>
        LET r == validation.result
        IN /\ r.is_valid <=> r.errors = {}
           /\ r.validated_data # None <=> r.is_valid
           /\ r.validated_data # None =>
                  /\ KnownTool(validation.request)
                  /\ SeqToSet(validator_schemas[validation.request.tool_name].required_fields)
                         \subseteq DOMAIN r.validated_data.v
                  /\ \A f \in DOMAIN r.validated_data.v :
                         r.validated_data.v[f] = validation.request.parameters[f]

\* C16 witness: an invalid result with two errors and no data, for a known tool
C16_Witness ==
    /\ validation # None
    /\ KnownTool(validation.request)
    /\ Cardinality(validation.result.errors) = 2
    /\ ~validation.result.is_valid
    /\ validation.result.validated_data = None

\* C17: validating the validated_data of a valid result against the same schema is
\* valid again and returns the same fields with the same values.
C17_ValidationIdempotent ==
    (validation # None /\ validation.again # None)
        => /\ validation.again.is_valid
           /\ validation.again.validated_data = validation.result.validated_data

\* C17 witness: a request with an entry outside the schema was validated twice
C17_Witness ==
    /\ validation # None
    /\ validation.again # None
    /\ "notes" \in DOMAIN validation.request.parameters
    /\ "user_info" \in DOMAIN validation.result.validated_data.v
    /\ validation.again.is_valid

\* what the claim asks of a chat_history: at most 50 items, each an object with role
\* user or assistant and a content string of 1 to 2000 characters
ChatHistoryWellFormed(chat_history) ==
    /\ chat_history.t = "arr"
    /\ Len(chat_history.v) <= 50
    /\ \A i \in 1..Len(chat_history.v) :
           LET item == chat_history.v[i]
           IN /\ item.t = "obj"
              /\ "role" \in DOMAIN item.v
              /\ item.v["role"] \in {StrV("user"), StrV("assistant")}
              /\ "content" \in DOMAIN item.v
              /\ item.v["content"].t = "str"
              /\ Len(item.v["content"].v) \in 1..2000

\* C18 (as claimed): a request that carries a chat_history is valid only if the
\* chat_history is well formed; an item with another role makes it invalid.
C18_ValidOnlyIfChatHistoryWellFormed ==
    (/\ validation # None
     /\ "chat_history" \in DOMAIN validation.request.parameters
     /\ validation.result.is_valid)
        => ChatHistoryWellFormed(validation.request.parameters["chat_history"])

\* what the claim asks of a user_info: the six subfields, each a non-empty string within
\* the longest length its constraint allows
UserInfoWellFormed(user_info) ==
    /\ user_info.t = "obj"
    /\ \A f \in {"user_id", "name", "grade_level", "learning_style_summary",
                 "emotional_state_summary", "mastery_level_summary"} :
           /\ f \in DOMAIN user_info.v
           /\ user_info.v[f].t = "str"
           /\ Len(user_info.v[f].v) >= 1
           /\ f = "name" => Len(user_info.v[f].v) <= 100
           /\ f \in {"learning_style_summary", "emotional_state_summary",
                     "mastery_level_summary"} => Len(user_info.v[f].v) <= 500

\* C19 (as claimed): a request that carries a user_info is valid only if the user_info
\* is well formed; a subfield that is not a string makes it invalid.
C19_ValidOnlyIfUserInfoWellFormed ==
    (/\ validation # None
     /\ "user_info" \in DOMAIN validation.request.parameters
     /\ validation.result.is_valid)
        => UserInfoWellFormed(validation.request.parameters["user_info"])

\* no string at any depth of the value holds a null byte or starts or ends with a space
RECURSIVE Clean(_)
Clean(value) ==
    CASE value.t = "str" ->
             /\ \A i \in 1..Len(value.v) : value.v[i] # NullByte
             /\ value.v # <<>> => (value.v[1] # Space /\ value.v[Len(value.v)] # Space)
      [] value.t = "obj" -> \A k \in DOMAIN value.v : Clean(value.v[k])
      [] value.t = "arr" -> \A i \in 1..Len(value.v) : Clean(value.v[i])
      [] OTHER -> TRUE

\* the two values have the same keys, lengths and types, and the same non-string leaves
RECURSIVE SameStructure(_, _)
SameStructure(a, b) ==
    /\ a.t = b.t
    /\ CASE a.t = "str" -> TRUE
         [] a.t = "obj" -> /\ DOMAIN a.v = DOMAIN b.v
                           /\ \A k \in DOMAIN a.v : SameStructure(a.v[k], b.v[k])
         [] a.t = "arr" -> /\ Len(a.v) = Len(b.v)
                           /\ \A i \in 1..Len(a.v) : SameStructure(a.v[i], b.v[i])
         [] OTHER -> a = b

\* C20 (as claimed): after sanitize_input no string at any depth of the result, string
\* elements of arrays included, holds a null byte or leading or trailing whitespace,
\* and the result has the structure of the input.
C20_SanitizedStringsClean ==
    sanitization # None =>
        /\ Clean(ObjV(sanitization.sanitized))
        /\ SameStructure(ObjV(sanitization.data), ObjV(sanitization.sanitized))

\* the error_code a non-200 answer supplies in its body, "" when it supplies none
SuppliedErrorCode(body) ==
    IF body.t = "obj" /\ "error_code" \in DOMAIN body.v /\ body.v["error_code"].t = "str"
    THEN body.v["error_code"].v
    ELSE ""

\* C21 (as claimed): every failure of the client is a failed ToolResponse with no data
\* and with error and error_code set, and the code is the fixed one: UNKNOWN_TOOL for a
\* name outside the endpoint table (no request made), TIMEOUT, CONNECTION_ERROR, the
\* remote error_code or else HTTP_ERROR for a status other than 200, CALL_ERROR for any
\* other exception.
C21_ClientNormalizesFailures ==
    invocation # None =>
        LET response == invocation.response
            net == invocation.net
        IN /\ ~response.success =>
                  /\ response.data = None
                  /\ response.error.t = "str"
                  /\ response.error_code.t = "str"
           /\ invocation.request.tool_name \notin tool_endpoints =>
                  /\ response.error_code = StrV("UNKNOWN_TOOL")
                  /\ net.kind = "not sent"
           /\ net.kind = "timeout" => response.error_code = StrV("TIMEOUT")
           /\ net.kind = "connect_error" => response.error_code = StrV("CONNECTION_ERROR")
           /\ net.kind = "exception" => response.error_code = StrV("CALL_ERROR")
           /\ (net.kind = "http" /\ net.status # 200) =>
                  /\ ~response.success
                  /\ response.error_code =
                         StrV(IF SuppliedErrorCode(net.body) # ""
                              THEN SuppliedErrorCode(net.body)
                              ELSE "HTTP_ERROR")

\* the run made its outbound request and the endpoint answered it with HTTP status 200
Answered200 ==
    /\ outbound # <<>>
    /\ outbound[1].kind = "http"
    /\ outbound[1].status = 200

ValidateStepRan == passes # <<>> /\ workflow_step \in {"parameters_extracted", "parameters_filled"}

\* C23: the validate step keeps every required field that has a non-null value, lists
\* every other required field as missing and does not keep it, copies the optional
\* fields that are present, drops the fields outside the schema; and the extraction
\* succeeds exactly when nothing is missing.
C23_ValidatePartitionsSchema ==
    ValidateStepRan =>
        LET tool_name == educational_intent.suggested_tool
            required == SeqToSet(tool_schemas[tool_name].required)
            optional == SeqToSet(tool_schemas[tool_name].optional)
            merged == MergePasses(passes)
            validated == validate_parameters(merged, tool_name)
            Given(p) == p \in DOMAIN merged /\ merged[p] # None
        IN /\ \A p \in required :
                  IF Given(p)
                  THEN p \in DOMAIN validated[1] /\ validated[1][p] = merged[p]
                  ELSE p \notin DOMAIN validated[1] /\ p \in SeqToSet(validated[2])
           /\ \A p \in SeqToSet(validated[2]) : p \in required /\ ~Given(p)
           /\ \A p \in optional :
                  IF p \in DOMAIN merged
                  THEN p \in DOMAIN validated[1] /\ validated[1][p] = merged[p]
                  ELSE p \notin DOMAIN validated[1]
           /\ DOMAIN validated[1] \subseteq required \cup optional
           /\ workflow_step = "parameters_extracted" <=> validated[2] = <<>>
           /\ workflow_step = "parameters_extracted" => extracted_parameters = validated[1]

\* C23 witness: a note_maker extraction whose merged parameters hold a null topic and a
\* count, which the schema does not know; the topic is missing and the count dropped
C23_Witness ==
    /\ ValidateStepRan
    /\ educational_intent.suggested_tool = "note_maker"
    /\ "topic" \in DOMAIN MergePasses(passes)
    /\ MergePasses(passes)["topic"] = None
    /\ "count" \in DOMAIN MergePasses(passes)
    /\ workflow_step = "parameters_filled"
    /\ "count" \notin DOMAIN extracted_parameters

RECURSIVE JoinWords(_)
JoinWords(text) ==
    IF Len(text) = 1 THEN text[1].w
    ELSE text[1].w \o " " \o JoinWords(Tail(text))

\* the places <<k, i>> where topic keyword k stands at token i of the message, with at
\* least one more token after it
KeywordPlaces(message) ==
    {<<k, i>> \in (1..Len(TopicKeywords)) \X (1..Len(message)) :
        i \in TopicMatches(TopicKeywords[k], message)}

\* C25 (as claimed): when the message holds one "about X" (or "topic X", "subject X",
\* "regarding X") and X runs to the end of the message, the topic the classifier
\* extracts contains the whole phrase X.
C25_TopicHoldsWholePhrase ==
    (/\ educational_intent # None
     /\ educational_intent.intent_type # "unknown"
     /\ Cardinality(KeywordPlaces(conversation_context.current_message)) = 1)
        => LET message == conversation_context.current_message
               place == CHOOSE p \in KeywordPlaces(message) : TRUE
               phrase == SubSeq(message, place[2] + 1, Len(message))
               topic == educational_intent.extracted_parameters["topic"]
           IN /\ topic.t = "str"
              /\ Contains(topic.v, JoinWords(phrase))

\* C26: a run makes at most one outbound request and at most one client call: once a
\* tool response is there, whatever its code, no step of the run calls the client or
\* posts to an endpoint again, and the run never comes back to execute_tool.
C26_NoSecondCall ==
    [][/\ Len(outbound') <= 1
       /\ tool_calls' <= 1
       /\ tool_response # None =>
              /\ outbound' = outbound
              /\ tool_calls' = tool_calls
              /\ tool_response' = tool_response
              /\ pc' # "execute_tool"]_vars

\* C26 witness: the one request of the run timed out and the run returned that failure
C26_Witness ==
    /\ pc = "returned"
    /\ Len(outbound) = 1
    /\ outbound[1].kind = "timeout"
    /\ tool_calls = 1
    /\ tool_response.error_code = StrV("TIMEOUT")
    /\ ~result.success

\* C27: calls of orchestrate() in flight together on one orchestrator do not interfere:
\* under every interleaving of their nodes each call returns what it would return run
\* alone on its context with the outcomes it met, and no node changes the tool schemas,
\* the pattern tables, the endpoint table or the context the caller passed.
C27_RunsDoNotInterfere ==
    /\ components = [tool_endpoints |-> tool_endpoints, tool_schemas |-> tool_schemas,
                     intent_patterns |-> intent_patterns, subjects |-> subjects]
    /\ \A r \in RunIds :
          /\ runs[r].pc # "idle" =>
                 run_states[state_of(r)].conversation_context = runs[r].context
          /\ runs[r].pc = "returned" => runs[r].result = RunAlone(runs[r].context, runs[r].met)

\* C27 witness: two calls on different contexts ran interleaved; one returned a tool's
\* answer and the other an error
C27_Witness ==
    /\ \A r \in RunIds : runs[r].pc = "returned" /\ runs[r].overlapped
    /\ runs[1].context # runs[2].context
    /\ runs[1].result.success
    /\ ~runs[2].result.success

\* the analyzed intent suggests a tool the extractor has no schema for
NoSchemaRun ==
    /\ educational_intent # None
    /\ educational_intent.suggested_tool \notin DOMAIN tool_schemas

\* C28: a run whose intent maps to a tool without an extractor schema (quiz_generator,
\* none) leaves extraction at parameters_filled with no parameters, fails request
\* building with "Missing intent or parameters", builds no request and never calls the
\* client, and its workflow ends in error_handled with that message; so no pipeline run
\* ever gets UNKNOWN_TOOL from the client.
C28_NoSchemaRunFailsBeforeClient ==
    /\ NoSchemaRun =>
          /\ extracted_parameters = EmptyDict
          /\ tool_request = None
          /\ tool_response = None
          /\ tool_calls = 0
          /\ outbound = <<>>
          /\ pc \notin {"execute_tool", "format_response"}
          /\ (pc = "validate_request" /\ error_stage = "none") =>
                 workflow_step = "parameters_filled"
          /\ pc = "handle_error" => error_message = StrV("Missing intent or parameters")
          /\ pc = "end" =>
                 /\ workflow_step = "error_handled"
                 /\ ~orchestrator_response.success
                 /\ orchestrator_response.error_message =
                        StrV("Missing intent or parameters")
    /\ tool_response # None => tool_response.error_code # StrV("UNKNOWN_TOOL")

\* C28 witness: a quiz request went through parameters_filled and came back as the
\* handled error, with no call made
C28_Witness ==
    /\ pc = "returned"
    /\ NoSchemaRun
    /\ educational_intent.intent_type = "quiz_generation"
    /\ educational_intent.suggested_tool = "quiz_generator"
    /\ error_stage = "validate_request"
    /\ workflow_step = "error_handled"
    /\ result.error_message = StrV("Missing intent or parameters")
    /\ tool_calls = 0

\* C29 (as claimed): the POST /orchestrate handler runs the pipeline for every
\* well-formed conversation context: its validation of the incoming context never turns
\* one away before orchestrate() is called.
C29_HandlerRunsPipeline ==
    endpoint_call # None => endpoint_call.orchestrated

\* the last call was made on a session that was in the store and had expired
OnExpiredSession ==
    /\ session_call # None
    /\ session_call.before # None
    /\ Expired(session_call.before, session_call.at)

\* C30 (as claimed): a session whose last activity is older than the timeout is never
\* served or revived: every operation called on it returns what it returns for a
\* missing session, and leaves the session removed or as it was (chat history and
\* last_activity unchanged), so that a later get_session for it returns None.
C30_ExpiredSessionIsMissing ==
    OnExpiredSession =>
        LET after == active_sessions[session_call.session_id]
        IN /\ session_call.returned = session_call.missing_returned
           /\ \/ after = session_call.missing_after
              \/ after = session_call.before

====
